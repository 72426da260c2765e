---------------------------- MODULE MCTimeSlots ----------------------------
(* Small instances of TimeSlots for TLC: the ids the rules name, with the  *)
(* types the rules take them to have.                                      *)
EXTENDS TimeSlots, TLC

Airports == {1, 3, 14}
Hotels == {5, 9, 21}
Areas == {13}
Booths == {6, 7, 17, 18}
MCBranches == Airports \cup Hotels \cup Areas \cup Booths

MCBranchType ==
    [b \in Airports |-> "AIRPORT"] @@ [b \in Hotels |-> "HOTEL"]
        @@ [b \in Areas |-> "AREA"] @@ [b \in Booths |-> "BOOTH"]

(* Every rule of the two operations, and a pair without a row.             *)
AllPairs == (MCBranches \X MCBranches) \cup {<<0, 9>>}

(* One pair for each rule that offers a pickup.                            *)
RulePairs ==
    {<<9, 9>>, <<9, 1>>, <<5, 3>>, <<13, 1>>, <<1, 3>>, <<3, 1>>, <<1, 9>>,
     <<1, 6>>, <<3, 7>>, <<1, 17>>, <<6, 9>>, <<17, 5>>, <<7, 9>>, <<6, 1>>,
     <<7, 3>>, <<17, 1>>, <<18, 3>>}

(* Around every bound of the rules: the second it falls on, the one after, *)
(* and either side of the half hour.                                       *)
At(hour, minute, second) == hour * Hour + minute * 60 + second
Bounds ==
    UNION {{At(h, 0, 0), At(h, 0, 1)} : h \in {8, 9, 10, 12, 13}}
        \cup {At(7, 0, 0), At(9, 1, 0), At(11, 29, 59), At(11, 30, 0),
              At(16, 0, 1), At(23, 30, 1), At(30, 59, 59)}

(* One moment between any two of the bounds that matter on other dates,    *)
(* and the last second of the server's day.                                *)
FewTimes == {At(8, 15, 0), At(9, 45, 0), At(12, 30, 0), LastSecond}
OtherDays == {"past", "sameNumber", "later", "wrapped"}
Today == {"today"}
=============================================================================
