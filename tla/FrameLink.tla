------------------------------ MODULE FrameLink ------------------------------
(***************************************************************************)
(* What the Bluetooth receiver promises its sessions, whatever is lost,    *)
(* repeated or mixed up on the way.  A frame is heard when its pieces come *)
(* one after the other; anything else spoils it.  A frame that was heard   *)
(* whole is passed on if it can be read and is newer than every frame      *)
(* passed since the connection, and no other frame ever is.                *)
(***************************************************************************)
EXTENDS Integers

CONSTANTS
    Frames, FrameLen, FrameSn,   \* the frames of peers, their pieces and numbers
    Plain, Sealed,               \* readable always; readable under the right key
    AirFrameMax                  \* the longest frame

Nothing == <<>>
Pieces == UNION {{f} \X (0..(FrameLen[f] - 1)) : f \in Frames}
Inputs == Pieces \union {Nothing}

VARIABLES
    input,     \* the piece <<f, i>> that is next, if it is there
    run,       \* <<f, n>>: the first n pieces of f were heard, one after the other
    last,      \* number of the newest frame
    passed     \* frames passed on since the connection

Init == input = Nothing /\ run = Nothing /\ last = 0 /\ passed = {}

Offer == input = Nothing /\ input' \in Inputs /\ UNCHANGED <<run, last, passed>>

Connect == input = Nothing /\ input' \in Inputs /\ last' = 0 /\ passed' = {} /\ UNCHANGED run

Fits(f) == FrameLen[f] <= AirFrameMax

\* A frame that fits and has its number is passed on, or dropped for lack of memory.
Pass(f) ==
    /\ f \in Plain \union Sealed /\ Fits(f) /\ FrameSn[f] > last
    /\ last' = FrameSn[f]
    /\ passed' \in {passed, passed \union {f}}

Refuse(f) ==
    /\ ~(f \in Plain /\ Fits(f) /\ FrameSn[f] > last)
    /\ UNCHANGED <<last, passed>>

Judge(f) == Pass(f) \/ Refuse(f)

\* The piece goes on with the run, or begins a new one.
Continues(f, i) == i = 0 \/ run = <<f, i>>

Hear(f, i) ==
    /\ Continues(f, i)
    /\ run' = <<f, i + 1>>
    /\ IF i + 1 = FrameLen[f] THEN Judge(f) ELSE UNCHANGED <<last, passed>>

\* Any other piece ends the run ...
Spoil(f, i) ==
    /\ ~Continues(f, i)
    /\ run' = Nothing /\ UNCHANGED <<last, passed>>

\* ... or, after a frame that is complete, has that frame judged again.
Again(f, i, g) ==
    /\ ~Continues(f, i)
    /\ run = <<g, FrameLen[g]>>
    /\ Judge(g) \/ UNCHANGED <<last, passed>>
    /\ UNCHANGED run

Take(f, i) ==
    /\ input = <<f, i>> /\ input' \in Inputs
    /\ Hear(f, i) \/ Spoil(f, i) \/ \E g \in Frames : Again(f, i, g)

Next ==
    \/ Offer \/ Connect
    \/ \E f \in Frames : \E i \in 0..(FrameLen[f] - 1) : Take(f, i)

Spec == Init /\ [][Next]_<<input, run, last, passed>>
==============================================================================
