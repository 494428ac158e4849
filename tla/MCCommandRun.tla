------------------------------ MODULE MCCommandRun ------------------------------
(***************************************************************************)
(* Scripts for CommandRun: one command with every text of up to MaxText    *)
(* bytes, and two short commands of every kind one after the other.        *)
(***************************************************************************)
EXTENDS CommandRun

CONSTANTS Bytes, MaxText

Texts == UNION {[1 .. n -> Bytes] : n \in 0 .. MaxText}

Captured == {<<Command("foreground", text, <<>>, 0, TRUE, FALSE)>> : text \in Texts}

Ran == {Command(by, <<"a">>, <<"b">>, 1, TRUE, safe) :
            by \in {"operation", "foreground", "background"}, safe \in BOOLEAN}
NotRunOnes == {Command(by, <<>>, <<>>, NotRun, FALSE, FALSE) :
                   by \in {"operation", "background"}}
InTurn == {<<first, second>> : first, second \in Ran \union NotRunOnes}

AllScripts == Captured \union InTurn
=============================================================================
