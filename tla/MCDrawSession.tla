--------------------------- MODULE MCDrawSession ---------------------------
(* TLC instances of DrawSession. *)
EXTENDS DrawSession, TLC

CONSTANTS p1, p2, c1, d1, d2

\* Replay as its loop goes, call by call, each on the scene that the one before
\* left, ends where ReplayFails and Replayed say.
ReplayCall(replay, request) ==
    IF replay.failed THEN replay
    ELSE IF request \in Undecoded \/ Refused(request, replay.drawn)
    THEN [replay EXCEPT !.failed = TRUE]
    ELSE [replay EXCEPT !.drawn = Executed(request, @)]

ASSUME LoopAssumption ==
    \A n \in 0 .. 4 : \A file \in [1 .. n -> Requests] :
        LET replay == FoldLeft(ReplayCall, [drawn |-> None, failed |-> FALSE], file)
        IN /\ replay.failed = ReplayFails(file)
           /\ ~replay.failed => replay.drawn = Replayed(file)
=============================================================================
