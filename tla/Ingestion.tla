----------------------------- MODULE Ingestion -----------------------------
(***************************************************************************)
(* An input from its file to what the run works on: the loader of its kind *)
(* and, for a state, the walk over the modules of the document accepted.   *)
(***************************************************************************)
EXTENDS InputFile, StateWalk

\* What the models of a state validate is one of the states considered.
ASSUME BodiesAssumption ==
    \A thing \in Things :
        thing.node = "file" /\ thing.text.form = "object" /\ thing.text.fits
            => thing.text.body \in Trees

vars == <<loadVars, walkVars>>

Init == LoadInit /\ WalkInit

\* The state handed over is the tree its file describes.
Flatten == outcome = "accepted" /\ kind = "state" /\ Call(loaded.body)

Step ==
    \/ LoadStep /\ UNCHANGED walkVars
    \/ (Flatten \/ WalkStep) /\ UNCHANGED loadVars

Next == Step \/ (Edit /\ UNCHANGED walkVars)

\* The process runs on and each call returns; nobody has to touch the file.
Spec == Init /\ [][Next]_vars /\ WF_vars(Step)

-----------------------------------------------------------------------------
\* What drift detection compares are the managed resources, all of them and each
\* once, of a state that was in the file at one moment, whatever replaced it
\* while it was loaded; only if the file was written into while it was read may
\* it be a state that never was there.
StateIsOfOneMoment ==
    resources # Nil =>
        /\ IsInjective(resources)
        /\ \/ rewritten
           \/ \E thing \in seen :
                 thing.node = "file" /\ thing.text.form = "object"
                   /\ Range(resources) = ManagedOf(thing.text.body)

\* Whoever goes on changing the file, loading and walking end.
IngestionEnds ==
    <>(outcome # "running" /\ (outcome = "accepted" /\ kind = "state" => resources # Nil))
=============================================================================
