-------------------------- MODULE TrajectoryPlayer --------------------------
(***************************************************************************)
(* Playback of anything indexed by a trajectory step                       *)
(* (motion/trajectoryPlayer.svelte.ts). A player is a record [step,        *)
(* playing]. The consumer keeps the steps: `total` is their number and     *)
(* `draws` says whether it can draw them. An operation gives the player    *)
(* after it and the step the consumer was told to draw, or NoStep.         *)
(***************************************************************************)
EXTENDS Integers

NoStep == -1
Players(steps) == [step : steps, playing : BOOLEAN]

Resting == [step |-> 0, playing |-> FALSE]
lastStep(total) == IF total = 0 THEN 0 ELSE total - 1
Clamped(step, total) ==
    IF step < 0 THEN 0 ELSE IF step > lastStep(total) THEN lastStep(total) ELSE step

Drew(p, step) == [player |-> [p EXCEPT !.step = step], shows |-> step]
Still(p) == [player |-> p, shows |-> NoStep]

\* The index moves only once the consumer drew it.
moveTo_Unclamped(p, step, total, draws) ==
    IF total = 0 \/ ~draws THEN Still(p) ELSE Drew(p, step)
moveTo(p, step, total, draws) ==
    IF total = 0 \/ ~draws THEN Still(p) ELSE Drew(p, Clamped(step, total))

pause(p) == [p EXCEPT !.playing = FALSE]
play(p, total) == IF total = 0 THEN p ELSE [p EXCEPT !.playing = TRUE]

toggle(p, total, draws) ==
    IF p.playing THEN Still(pause(p))
    ELSE LET rewound == IF p.step >= lastStep(total) THEN moveTo(p, 0, total, draws)
                        ELSE Still(p)
         IN [rewound EXCEPT !.player = play(@, total)]

seek(p, step, total, draws) == moveTo(pause(p), step, total, draws)
stepBy(p, delta, total, draws) == moveTo(pause(p), p.step + delta, total, draws)

\* The interval of a playing player: one step further, or parked.
tick(p, total, draws) ==
    IF p.step >= lastStep(total) \/ total = 0 \/ ~draws THEN Still(pause(p))
    ELSE moveTo(p, p.step + 1, total, draws)

\* What the controls of a scrubber may do.
Scrubbed(p, total, draws) ==
    {toggle(p, total, draws)}
        \cup {seek(p, step, total, draws) : step \in 0..lastStep(total)}
        \cup {stepBy(p, delta, total, draws) : delta \in {-1, 1}}

\* The effect that follows any change: no steps, no playback.
Unloaded(p, total) == IF total = 0 THEN Resting ELSE p

=============================================================================
