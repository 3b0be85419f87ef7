----------------------------- MODULE MCBitCask ------------------------------
EXTENDS BitCask
MCKeys == {<<1>>, <<2, 1>>}
MCValues == {<<>>, <<1>>}
=============================================================================
