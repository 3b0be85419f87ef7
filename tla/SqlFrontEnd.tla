---------------------------- MODULE SqlFrontEnd ----------------------------
(***************************************************************************)
(* The SQL front end at work: statements arrive as token sequences, each   *)
(* one a well-formed statement or one a few token edits away from it.      *)
(* Parsing them does not change any state, so the properties are about     *)
(* what the parsers, the printer and the nesting guard make of the         *)
(* statement that arrives with a step.                                     *)
(***************************************************************************)
EXTENDS SqlNesting, SqlPrinter, SqlLegacyParser

CONSTANTS
    Seeds,       \* the statements the inputs start from, with the edits allowed on each
    Alphabet     \* the tokens that edits put in

VARIABLES toks, edits     \* the last statement, and the edits it allows

Init == toks = <<>> /\ edits = 0

Receive(seed) == toks = <<>> /\ toks' = seed.toks /\ edits' = seed.edits

InsertToken(i, tok) == toks' = SubSeq(toks, 1, i - 1) \o <<tok>> \o SubSeq(toks, i, Len(toks))
ReplaceToken(i, tok) == toks' = [toks EXCEPT ![i] = tok]
DeleteToken(i) == toks' = RemoveAt(toks, i)

ReceiveEdited ==
    /\ edits > 0
    /\ edits' = edits - 1
    /\ \/ \E i \in 1..(Len(toks) + 1), tok \in Alphabet : InsertToken(i, tok)
       \/ \E i \in DOMAIN toks, tok \in Alphabet : ReplaceToken(i, tok)
       \/ \E i \in DOMAIN toks : DeleteToken(i)

Next == ReceiveEdited \/ \E seed \in Seeds : Receive(seed)

Spec == Init /\ [][Next]_<<toks, edits>>

-----------------------------------------------------------------------------

ReadsBack(s) ==
    LET r == ParseControl(s, 1)
        printed == PrintStmt(r.ast)
    IN (r.ok /\ PrintableStmt(r.ast)) => ParseControl(printed, 1) = Ok(r.ast, Len(printed) + 1)

(* Printing loses nothing: of every statement the parser returns, unless   *)
(* it holds a literal without a token (an infinity or a NaN),              *)
(* parse_control_at reads the printed tokens back as the same statement    *)
(* and to their end (stmt_min_roundtrip_live).                             *)
RoundTrip == [][ReadsBack(toks')]_toks

MalformedIs(s) ==
    \E i \in DOMAIN s :
        /\ s[i] = "IS"
        /\ At(s, IF At(s, i + 1) = "NOT" THEN i + 2 ELSE i + 1) \notin {"NULL", "NAN"}

ParseAlike(s) ==
    LET new == Parse(s)
        old == ParseLegacy(s)
    IN new.err # <<"NestingTooDeep">> =>
        /\ new.ok = old.ok
        /\ new.ast = old.ast
        /\ ~MalformedIs(s) => new.err = old.err

(* The verified parser took over from the legacy one without changing the  *)
(* language: both accept the same statements, with the same tree, and      *)
(* reject the others with the same error.  Where an IS is followed by      *)
(* neither NULL nor NAN both reject, each with an error of its own         *)
(* (differential.rs).                                                      *)
ParsersAgree == [][ParseAlike(toks')]_toks

Twice(list) == list \o list

(* The statement with every list that a loop parses made twice as long. *)
Widen(s) ==
    CASE s.type = "Select" -> [s EXCEPT !.select = Twice(@), !.from = Twice(@),
                                        !.group_by = Twice(@), !.order_by = Twice(@)]
      [] s.type = "Insert" -> [s EXCEPT !.columns = IF @ = <<>> THEN @ ELSE <<Twice(@[1])>>,
                                        !.values = Twice([i \in DOMAIN @ |-> Twice(@[i])])]
      [] s.type = "CreateTable" -> [s EXCEPT !.columns = Twice(@)]
      [] OTHER -> s

ChargedAsWidened(s) ==
    LET r == ParseControl(s, 1)
    IN (r.ok /\ PrintableStmt(r.ast)) => PeakCharge(PrintStmt(Widen(r.ast))) = PeakCharge(PrintStmt(r.ast))

(* Wide input is not deep input: making the SELECT items, FROM items,      *)
(* VALUES rows, row literals or column lists of a statement twice as long  *)
(* does not raise what check_nesting_depth charges for it, so they parse   *)
(* however long they get.                                                  *)
WideListsFree == [][ChargedAsWidened(toks')]_toks

(* How many calls of the expression parser nest, printed with minimal      *)
(* parentheses, of those that can nest without bound: parentheses and      *)
(* calls, call arguments, right operands of ^, and prefix operators, run   *)
(* of them, which wait for the first operand of e.                         *)
RECURSIVE Nesting(_, _, _)
Nesting(e, context, run) ==
    LET Deepest(exprs) == Max({0} \union {i - 1 + Nesting(exprs[i], 0, 0) : i \in DOMAIN exprs})
    IN CASE PrecMin(e) < context -> run + 1 + Nesting(e, 0, 0)
         [] PrecMin(e) >= context /\ e[1] \in BinaryOps ->
              Max({Nesting(e[2], LeftContext(e[1]), run),
                   Nesting(e[3], RightContext(e[1]), 0) + (IF e[1] = "Exponentiate" THEN 1 ELSE 0)})
         [] PrecMin(e) >= context /\ e[1] \in {"Not", "Identity", "Negate"} ->
              Nesting(e[2], PrefixPrec(e[1]), run + 1)
         [] PrecMin(e) >= context /\ e[1] \in {"Factorial", "Is"} -> Nesting(e[2], 10, run)
         [] e[1] = "Function" -> run + 1 + Deepest(e[3])
         [] OTHER -> run

ChargedAsNested(s) ==
    LET r == ParseExpressionAt(s, 2, 0, Fuel(s))
        nesting == Nesting(r.ast, 0, 0)
        printed == <<"SELECT">> \o PrintMin(r.ast)
    IN (At(s, 1) = "SELECT" /\ r.ok /\ Printable(r.ast)) =>
        /\ nesting <= PeakCharge(printed)
        /\ "!" \notin ToSet(printed) =>
              (CheckNestingDepth(printed) <=> nesting <= MaxNestingDepth)

(* The guard is neither too lax nor too strict: check_nesting_depth, which *)
(* sees tokens only, charges an expression for every call that can nest    *)
(* without bound while the parser parses it, and admits exactly the        *)
(* expressions in which at most MaxNestingDepth of them nest.  With        *)
(* factorials it may charge more.                                          *)
GuardChargesNesting == [][ChargedAsNested(toks')]_toks
=============================================================================
