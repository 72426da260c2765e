---------------------------- MODULE MCBranchEnds ----------------------------
(* Small instances of BranchEnds for TLC.                                  *)
EXTENDS BranchEnds, TLC

CONSTANTS b1, b2, inB2, nowhere, outside, garbled

MCSupportArea == inB2 :> b2 @@ nowhere :> UnknownBranch
                     @@ outside :> Outside @@ garbled :> Malformed

(* Every way to name an end, one with both fields among them.              *)
AnyEnd == {[id |-> b, place |-> None] : b \in {b1, b2, UnknownBranch}}
              \cup {[id |-> None, place |-> p] : p \in Places \cup {None}}
              \cup {[id |-> b1, place |-> inB2]}

(* The luggage sizes look at no end: one pair that is named and one not.   *)
AllInputs ==
    {in \in [kind : {"area", "slots", "sizes"}, from : AnyEnd, to : AnyEnd,
             dated : BOOLEAN] :
        /\ in.kind # "slots" => in.dated
        /\ in.kind = "sizes" => in.from.id = b1 /\ in.to.place \in {inB2, None}}
AreaInputs == {in \in AllInputs : in.kind = "area"}
=============================================================================
