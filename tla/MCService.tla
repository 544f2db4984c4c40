------------------------------ MODULE MCService ------------------------------
(* Small instances of Service for TLC. *)
EXTENDS Service

CONSTANTS c1, c2, k1, k2, v1, v2, trek, run, yoga, art, chess, t1, t2, guide, card,
          pic, r1, r2, r3, p1, p2, m1, m2, feedList

TwoCallers == {c1, c2}
TwoKeys == {k1, k2}
TwoContents == {v1, v2}
ShortTtls == [s \in Services |-> IF s \in {"search", "trails"} THEN 2 ELSE 1]
TwoRails == <<"popular", "world">>
FourCategories == <<"Cafes", "Parks", "Bookstores", "Galleries">>
NoneOrMany == {0, 2}
SomeHobbies == {<<>>, <<run, NoHobby, run, yoga, art, chess, trek>>, <<trek, run>>}
DefaultHobbies == <<trek, run>>
TwoTrails == {t1, t2}
TrekAndPlace == {guide, card}
OneTrek == {guide}
TwoPictures == {"own", pic}
ThreeRows == {r1, r2, r3}
TwoProcesses == {p1, p2}
OldAndNew == (p1 :> <<m1>>) @@ (p2 :> <<m1, m2>>)
OneList == {feedList}
LimitOne == feedList :> 1
LimitTwo == feedList :> 2
AskNoneOrMany == {0, 5}

VARIABLE focus      \* what a behaviour is about, chosen at the start

\* The parts share nothing: one moves at a time, and one cache of the seven.
MCNext ==
    /\ \/ /\ focus \in Services
          /\ ContentActs
          /\ \A c \in Asking' : asking'[c].service = focus
       \/ focus = "feed" /\ FeedActs
       \/ focus = "cards" /\ CardActs
       \/ focus = "boot" /\ BootActs
       \/ focus = "pages" /\ PagesActs
    /\ UNCHANGED focus

MCInit == Init /\ focus \in Services \cup {"feed", "cards", "boot", "pages"}

MCSpec == MCInit /\ [][MCNext]_<<vars, focus>> /\ Fairness
=============================================================================
