----------------------------- MODULE SqlNesting -----------------------------
(***************************************************************************)
(* The scan that turns away statements the recursive parser could not      *)
(* parse in bounded stack (check_nesting_depth in sql/parser/parser.rs),   *)
(* and Parser::parse, which runs it before the parser.                     *)
(***************************************************************************)
EXTENDS SqlParser, FiniteSetsExt

CONSTANT MaxNestingDepth

NewLevel(prefix_held, is_call) ==
    [prefix_held |-> prefix_held, args |-> 0, carets |-> 0, is_call |-> is_call]

Frames(level) == level.prefix_held + level.args + level.carets

ScanInit ==
    [levels |-> <<NewLevel(0, FALSE)>>, held_total |-> 0, prefix_run |-> 0,
     expect_operand |-> TRUE, ident_pending |-> FALSE, after_name_kw |-> FALSE]

\* Mutant: the name after INTO counts as the head of a call.
IntroducesNameInto(tok) == tok \in {"TABLE", "FROM", "JOIN", "UPDATE"}
IntroducesName(tok) == tok \in {"TABLE", "INTO", "FROM", "JOIN", "UPDATE"}

\* Mutant: a prefix operator ends a chain of exponents.
ClosesCaretChainAnywhere(tok, expect_operand) ==
    tok \in Keywords \union {"=", "!=", ">", ">=", "<", "<=", "<>", "+", "-", "*", "/", "%"}
ClosesCaretChain(tok, expect_operand) ==
    ~expect_operand /\ tok \in Keywords \union
        {"=", "!=", ">", ">=", "<", "<=", "<>", "+", "-", "*", "/", "%"}

ClearCarets(st) ==
    [st EXCEPT !.held_total = @ - Last(st.levels).carets,
               !.levels[Len(st.levels)].carets = 0]

(* An identifier that no parenthesis follows releases the prefix operators *)
(* that waited for it.                                                     *)
ReleaseIdent(st, tok) ==
    LET released == IF st.ident_pending /\ tok # "(" THEN [st EXCEPT !.prefix_run = 0] ELSE st
        settled == [released EXCEPT !.ident_pending = FALSE]
    IN IF ClosesCaretChain(tok, st.expect_operand) THEN ClearCarets(settled) ELSE settled

OpenLevel(st, call_head) ==
    [st EXCEPT !.levels = Append(@, NewLevel(st.prefix_run, call_head)),
               !.held_total = @ + st.prefix_run, !.prefix_run = 0, !.expect_operand = TRUE]

CloseLevel(st) ==
    LET closed == [st EXCEPT !.prefix_run = 0, !.expect_operand = FALSE]
    IN IF Len(st.levels) > 1
       THEN [closed EXCEPT !.levels = Front(@), !.held_total = @ - Frames(Last(st.levels))]
       ELSE closed

NextItem(st) ==
    LET cleared == [ClearCarets(st) EXCEPT !.prefix_run = 0, !.expect_operand = TRUE]
    IN IF Last(st.levels).is_call
       THEN [cleared EXCEPT !.levels[Len(st.levels)].args = @ + 1, !.held_total = @ + 1]
       ELSE cleared

IsOperandToken(tok) ==
    tok \in Numbers \union Strings \union {"*", "TRUE", "FALSE", "NULL", "INFINITY", "NAN"}

(* One token of the scan. *)
ScanToken(before, tok) ==
    LET st == ReleaseIdent(before, tok)
        next ==
          CASE tok = "(" -> OpenLevel(st, before.ident_pending)
            [] tok = ")" -> CloseLevel(st)
            [] tok = "," -> NextItem(st)
            [] tok \in {"-", "+"} /\ st.expect_operand -> [st EXCEPT !.prefix_run = @ + 1]
            [] tok = "^" -> [st EXCEPT !.levels[Len(st.levels)].carets = @ + 1,
                                       !.held_total = @ + 1, !.expect_operand = TRUE]
            [] tok = "NOT" -> [st EXCEPT !.prefix_run = @ + 1, !.expect_operand = TRUE]
            [] tok \in Idents /\ st.expect_operand ->
                  [st EXCEPT !.prefix_run = IF st.after_name_kw THEN 0 ELSE @,
                             !.ident_pending = ~st.after_name_kw, !.expect_operand = FALSE]
            [] IsOperandToken(tok) /\ st.expect_operand ->
                  [st EXCEPT !.prefix_run = 0, !.expect_operand = FALSE]
            [] OTHER -> [st EXCEPT !.prefix_run = 0, !.expect_operand = TRUE]
    IN [next EXCEPT !.after_name_kw = IntroducesName(tok)]

(* The states of the scan from st on, one before each token and one at the *)
(* end.                                                                    *)
RECURSIVE ScanFrom(_, _)
ScanFrom(st, s) == <<st>> \o (IF s = <<>> THEN <<>> ELSE ScanFrom(ScanToken(st, Head(s)), Tail(s)))

ScanStates(s) == ScanFrom(ScanInit, s)

Charge(st) == Len(st.levels) - 1 + st.held_total + st.prefix_run

PeakCharge(s) == Max({Charge(st) : st \in ToSet(ScanStates(s))})

CheckNestingDepth(s) == PeakCharge(s) <= MaxNestingDepth

(* A whole statement, with an optional semicolon. *)
Parse(s) ==
    IF ~CheckNestingDepth(s) THEN Fail(<<"NestingTooDeep">>)
    ELSE Then(ParseControl(s, 1), LAMBDA stmt, p :
            LET q == IF At(s, p) = ";" THEN p + 1 ELSE p
            IN IF AtEnd(s, q) THEN Ok(stmt, q) ELSE Fail(<<"UnexpectedToken", s[q]>>))
=============================================================================
