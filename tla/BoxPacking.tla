------------------------------ MODULE BoxPacking ------------------------------
(* The boxes an order is shipped in, for a quotation or for a preview: the     *)
(* candidates are the units of the order whose product has measures, one for   *)
(* each piece. A standing candidate is a box of its own; a nested one (the     *)
(* code's "overlapped") travels inside a box, at most three in each, and when  *)
(* the boxes are full the largest one left becomes a box. The code drops a     *)
(* nested candidate it has put away; the model keeps it, to say where it went. *)
EXTENDS Integers, Sequences, FiniteSets

CONSTANTS
    Volumes,        \* volumes of the nested candidates
    MaxStanding,    \* bound: standing candidates of an order
    MaxNested       \* bound: nested candidates of an order

ASSUME BoxPackingAssumption ==
    /\ Volumes \subseteq Nat \ {0}
    /\ MaxStanding \in Nat /\ MaxNested \in Nat

VARIABLES
    packing,    \* the step packBoxes is at, and what it was given
    boxes,      \* the boxes so far
    left        \* nested candidates not in a box yet, the smallest first

packVars == <<packing, boxes, left>>

\* maxOverlappedPerBox.
PerBox == 3

\* What a standing box says of itself; its own volume is never looked at.
Standing == 0

Least(a, b) == IF a <= b THEN a ELSE b

\* The volumes of the nested candidates, sorted.
Sorted == UNION {{s \in [1..n -> Volumes] : \A i, j \in 1..n : i <= j => s[i] <= s[j]}
                    : n \in 0..MaxNested}

PackInit ==
    /\ packing = [phase |-> "idle", standing |-> 0, nested |-> <<>>, main |-> 0, mode |-> "NONE"]
    /\ boxes = <<>> /\ left = <<>>

\* buildCandidates and the two lists packBoxes starts from; when nothing stands,
\* the largest candidate is made to.
Collect(s, n) ==
    LET promote == s = 0 /\ n # <<>>
    IN  /\ packing.phase = "idle"
        /\ packing' = [phase |-> "fill", standing |-> s, nested |-> n, main |-> 1, mode |-> "NONE"]
        /\ boxes' = IF promote THEN <<[volume |-> n[Len(n)], inside |-> <<>>]>>
                               ELSE [i \in 1..s |-> [volume |-> Standing, inside |-> <<>>]]
        /\ left' = IF promote THEN SubSeq(n, 1, Len(n) - 1) ELSE n

\* FillBox when the count of a box may reach the limit once more
\* (assigned <= maxOverlappedPerBox).
OverfilledBox ==
    LET k == Least(PerBox + 1, Len(left))
    IN  /\ packing.phase = "fill" /\ packing.main <= Len(boxes)
        /\ boxes' = [boxes EXCEPT ![packing.main].inside = SubSeq(left, 1, k)]
        /\ left' = SubSeq(left, k + 1, Len(left))
        /\ packing' = [packing EXCEPT !.main = @ + 1]

\* The boxes there are take the smallest candidates, one box after the other.
FillBox ==
    LET k == Least(PerBox, Len(left))
    IN  /\ packing.phase = "fill" /\ packing.main <= Len(boxes)
        /\ boxes' = [boxes EXCEPT ![packing.main].inside = SubSeq(left, 1, k)]
        /\ left' = SubSeq(left, k + 1, Len(left))
        /\ packing' = [packing EXCEPT !.main = @ + 1]

\* All of them are full: the largest candidate left becomes a box and takes the
\* next largest, for the list is sorted the other way round by now.
PromoteBox ==
    LET n == Len(left)
        k == Least(PerBox, n - 1)
    IN  /\ packing.phase = "fill" /\ packing.main > Len(boxes) /\ left # <<>>
        /\ boxes' = Append(boxes, [volume |-> left[n], inside |-> SubSeq(left, n - k, n - 1)])
        /\ left' = SubSeq(left, 1, n - 1 - k)
        /\ packing' = [packing EXCEPT !.main = @ + 1]

\* An order without a candidate travels in a box of default measures. One box
\* goes by the express service, more by the parcel service.
FinishPacking ==
    LET units == IF boxes = <<>> THEN <<[volume |-> Standing, inside |-> <<>>]>> ELSE boxes
    IN  /\ packing.phase = "fill" /\ packing.main > Len(boxes) /\ left = <<>>
        /\ boxes' = units
        /\ packing' = [packing EXCEPT !.phase = "done",
                                      !.mode = IF Len(units) <= 1 THEN "EXPRESS" ELSE "PARCEL"]
        /\ UNCHANGED left

\* The next order.
Dispose == packing.phase = "done" /\ packing' = [packing EXCEPT !.phase = "idle"]
             /\ boxes' = <<>> /\ UNCHANGED left

PackNext ==
    \/ \E s \in 0..MaxStanding, n \in Sorted : Collect(s, n)
    \/ FillBox \/ PromoteBox \/ FinishPacking \/ Dispose

-----------------------------------------------------------------------------
PackSpec == PackInit /\ [][PackNext]_packVars

\* The candidates of volume v in some boxes, as boxes or inside one.
Packed(bs, v) ==
    {<<i, 0>> : i \in {j \in DOMAIN bs : bs[j].volume = v}}
      \cup {c \in (DOMAIN bs) \X (1..PerBox) :
              c[2] \in DOMAIN bs[c[1]].inside /\ bs[c[1]].inside[c[2]] = v}

\* Those of a list.
Pieces(s, v) == {i \in DOMAIN s : s[i] = v}

\* The least number of boxes that hold so many candidates, whichever of the
\* nested ones are made boxes.
LeastBoxes(s, n) == CHOOSE k \in 1..(s + n + 1) :
    /\ k >= s /\ s + n <= k * (PerBox + 1)
    /\ \A j \in 1..(k - 1) : j < s \/ s + n > j * (PerBox + 1)

\* Packing an order neither loses a piece nor ships one twice, puts at most three
\* into a box and none into a smaller one that was a nested piece itself, and
\* needs as few boxes as can be (packBoxes): the carrier is paid by the box, and
\* the number of boxes also picks its service.
PackedSafely ==
    packing.phase = "done" =>
        /\ Len(boxes) = LeastBoxes(packing.standing, Len(packing.nested))
        /\ packing.mode = "EXPRESS" <=> packing.standing + Len(packing.nested) <= PerBox + 1
                                           /\ packing.standing <= 1
        /\ \A v \in Volumes : Cardinality(Packed(boxes, v)) = Cardinality(Pieces(packing.nested, v))
        /\ \A i \in DOMAIN boxes :
              /\ Len(boxes[i].inside) <= PerBox
              /\ boxes[i].volume # Standing =>
                    \A j \in DOMAIN boxes[i].inside : boxes[i].inside[j] <= boxes[i].volume

-----------------------------------------------------------------------------
(* What makes packing safe: the boxes already passed are full while anything is *)
(* left, and a box is added only when all there are have been filled.           *)

PackTypes ==
    /\ packing \in [phase : {"idle", "fill", "done"}, standing : 0..MaxStanding, nested : Sorted,
                    main : Nat, mode : {"NONE", "EXPRESS", "PARCEL"}]
    /\ boxes \in Seq([volume : Volumes \cup {Standing}, inside : Seq(Volumes)])
    /\ left \in Seq(Volumes)
    /\ \A i, j \in DOMAIN left : i <= j => left[i] <= left[j]

PieceCount == packing.standing + Len(packing.nested)

\* No box is one too many.
BoxesNeeded ==
    /\ packing.standing <= Len(boxes)
    /\ PieceCount > 0 => boxes # <<>>
    /\ (Len(boxes) > packing.standing /\ Len(boxes) > 1) => PieceCount > (PerBox + 1) * (Len(boxes) - 1)

\* What is left is accounted for, and what is not does fit.
PlacesFilled ==
    /\ packing.main \in 1..(Len(boxes) + 1)
    /\ \A i \in DOMAIN boxes : i >= packing.main => boxes[i].inside = <<>>
    /\ IF left = <<>> THEN PieceCount <= (PerBox + 1) * Len(boxes)
       ELSE PieceCount = Len(boxes) + PerBox * (packing.main - 1) + Len(left)

PiecesFit ==
    \A i \in DOMAIN boxes :
        /\ Len(boxes[i].inside) <= PerBox
        /\ boxes[i].volume # Standing =>
              /\ \A j \in DOMAIN boxes[i].inside : boxes[i].inside[j] <= boxes[i].volume
              /\ \A j \in DOMAIN left : left[j] <= boxes[i].volume

PiecesKept ==
    \A v \in Volumes : Cardinality(Packed(boxes, v)) + Cardinality(Pieces(left, v))
                           = Cardinality(Pieces(packing.nested, v))

PackInv ==
    /\ PackTypes
    /\ packing.phase = "idle" => boxes = <<>> /\ left = <<>>
    /\ packing.phase = "fill" => PlacesFilled
    /\ packing.phase # "idle" => BoxesNeeded /\ PiecesFit /\ PiecesKept
    /\ packing.phase = "done" =>
          /\ left = <<>> /\ boxes # <<>> /\ PieceCount <= (PerBox + 1) * Len(boxes)
          /\ packing.mode = IF Len(boxes) <= 1 THEN "EXPRESS" ELSE "PARCEL"
===============================================================================
