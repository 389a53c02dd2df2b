-------------------------------- MODULE Recorder --------------------------------
(***************************************************************************)
(* What the out files are for, with no paths, clock or runs in sight: each *)
(* stream has a recording, of the numbers of the pieces it has heard.  A   *)
(* recording grows only by what its own stream hears, and is replaced only *)
(* when its stream is over, by that of a stream that begins.  A recorder   *)
(* that is reliable misses nothing; one that is not may miss a piece or    *)
(* lose a recording up to here, and still records nothing out of order.    *)
(* MediaFiles implements this module.                                      *)
(***************************************************************************)
EXTENDS Naturals, Sequences

CONSTANT Stream

VARIABLES reliable,     \* does the recorder do what it is told?
          stage,        \* is a stream yet to begin, receiving, or ended?
          heard,        \* how many pieces each stream has heard
          recording     \* the numbers of those that were kept

recorderVars == <<reliable, stage, heard, recording>>

Stages == {"none", "receiving", "ended"}

RecorderInit ==
    /\ reliable \in BOOLEAN
    /\ stage = [c \in Stream |-> "none"]
    /\ heard = [c \in Stream |-> 0]
    /\ recording = [c \in Stream |-> <<>>]

\* Stream c begins, and may take the place of one that is over; or fails to.
Begin(c) ==
    /\ stage[c] = "none"
    /\ \/ stage' = [stage EXCEPT ![c] = "receiving"]
       \/ ~reliable /\ stage' = [stage EXCEPT ![c] = "ended"]
    /\ \/ UNCHANGED recording
       \/ \E d \in Stream : stage[d] = "ended" /\ recording' = [recording EXCEPT ![d] = <<>>]
    /\ UNCHANGED <<reliable, heard>>

\* What may be left of recording r, reliably, when piece n is heard.
Kept(r, n) == {Append(r, n)}

KeptOrLost(r, n) == Kept(r, n) \cup {r, <<n>>, <<>>}

Hear(c) ==
    /\ stage[c] = "receiving"
    /\ heard' = [heard EXCEPT ![c] = @ + 1]
    /\ \E r \in (IF reliable THEN Kept(recording[c], heard[c] + 1)
                             ELSE KeptOrLost(recording[c], heard[c] + 1)) :
           recording' = [recording EXCEPT ![c] = r]
    /\ UNCHANGED <<reliable, stage>>

\* Streams end, one alone or all together.
End ==
    /\ stage' \in [Stream -> Stages]
    /\ \A c \in Stream : stage'[c] = stage[c] \/ (stage[c] = "receiving" /\ stage'[c] = "ended")
    /\ UNCHANGED <<reliable, heard, recording>>

Lose(c) ==
    /\ ~reliable
    /\ recording' = [recording EXCEPT ![c] = <<>>]
    /\ UNCHANGED <<reliable, stage, heard>>

RecorderNext ==
    \/ End
    \/ \E c \in Stream : Begin(c) \/ Hear(c) \/ Lose(c)

RecorderSpec == RecorderInit /\ [][RecorderNext]_recorderVars
===============================================================================
