---------------------------- MODULE MCReliableTest ----------------------------
(***************************************************************************)
(* Small instances of ReliableTest.  A text is the set of its newlines and *)
(* that of its NULs; AllTexts are all texts of up to MaxSize bytes, one    *)
(* less for each NUL and MaxNuls NULs at most, and FramedTexts those of    *)
(* terminated lines without a NUL that fit in the server's buffer.         *)
(***************************************************************************)
EXTENDS ReliableTest

CONSTANTS MaxSize, MaxNuls

AllTexts ==
    UNION {{t \in [size : {s}, nls : SUBSET (1 .. s), nuls : SUBSET (1 .. s)] :
                /\ t.nls \cap t.nuls = {}
                /\ Cardinality(t.nuls) <= MaxNuls /\ s + Cardinality(t.nuls) <= MaxSize} : s \in 0 .. MaxSize}

FramedTexts == {t \in AllTexts : Terminated(t) /\ NoNul(t) /\ Short(t)}

=============================================================================
