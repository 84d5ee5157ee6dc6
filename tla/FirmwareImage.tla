--------------------------- MODULE FirmwareImage ---------------------------
(* What a firmware download promises. An image that fits: the device counts   *)
(* bytes of it as downloaded only when they are stored, never touches what it *)
(* counted, and reports completion only when the image is stored. A restart   *)
(* forgets the count. An image larger than the firmware area: the same for    *)
(* the bytes there is room for; the others are refused, and counted all the   *)
(* same, so that completion is reported for an image of which they are        *)
(* missing.                                                                   *)
EXTENDS Integers

CONSTANT AreaSize

VARIABLES
    size,       \* the size of the image
    stored,     \* the firmware area; byte k of the image is the number k
    counted,    \* how many bytes of the image the device counts as downloaded
    complete    \* whether it reported the download as complete

avars == <<size, stored, counted, complete>>

Area == 0 .. AreaSize - 1

TooLarge == size > AreaSize

\* The first m bytes of the image are there, each of them.
Holds(area, m) == \A k \in 0 .. m - 1 : k \in Area /\ area[k] = k

KeepsCounted == \A k \in Area : k < counted => stored'[k] = stored[k]

AInit == counted = 0 /\ complete = FALSE

Store ==
    /\ ~complete
    /\ KeepsCounted
    /\ counted' >= counted /\ counted' <= size
    /\ Holds(stored', counted')
    /\ UNCHANGED complete

\* What is beyond the area is counted and stored nowhere.
Refuse ==
    /\ TooLarge /\ ~complete
    /\ counted >= AreaSize
    /\ counted' >= counted /\ counted' <= size
    /\ UNCHANGED <<stored, complete>>

Finish ==
    /\ ~complete /\ counted = size
    /\ TooLarge \/ Holds(stored, size)
    /\ complete' = TRUE
    /\ UNCHANGED <<stored, counted>>

Restart ==
    /\ KeepsCounted
    /\ counted' \in 0 .. counted
    /\ complete' = FALSE

ANext == (Store \/ Refuse \/ Finish \/ Restart) /\ UNCHANGED size

ASpec == AInit /\ [][ANext]_avars
=============================================================================
