--------------------------- MODULE MCEventIngest ---------------------------
(***************************************************************************)
(* One fill, one settlement, a position callback and an order callback,    *)
(* with the engine re-minting event IDs: g2 repeats the settlement of g1,  *)
(* f2 (in the runs that deliver it) the execution of f1.                   *)
(***************************************************************************)
EXTENDS EventIngest

CONSTANTS f1, f2, g1, g2, p1, o1    \* native event IDs
CONSTANTS ReMintedFill              \* f2 arrives too

MCCallbacks == {f1, g1, g2, p1, o1} \cup (IF ReMintedFill THEN {f2} ELSE {})
MCSources == {"order", "money"}
MCKeys == {"execution", "settlement", "fingerprint"}
MCKind ==
    [c \in MCCallbacks |-> CASE c \in {f1, f2} -> "fill" [] c \in {g1, g2} -> "funding"
                             [] c = p1 -> "position" [] OTHER -> "order"]
MCSourceOf == [c \in MCCallbacks |-> IF c \in {f1, f2, o1} THEN "order" ELSE "money"]
MCKeyOf ==
    [c \in MCCallbacks |-> CASE c \in {f1, f2} -> "execution" [] c \in {g1, g2} -> "settlement"
                             [] c = p1 -> "fingerprint" [] OTHER -> None]
============================================================================
