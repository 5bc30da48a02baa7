----------------------------- MODULE InputFile -----------------------------
(***************************************************************************)
(* How one input is read: load_json_document with load_plan or load_state, *)
(* load_policy, and the reading of the bundled pricing snapshot.  at names *)
(* the statement reached.  A loader looks at its path up to three times,   *)
(* and between two looks others may replace what is there; while it reads  *)
(* the file it opened, others may write into that.                         *)
(***************************************************************************)
EXTENDS Integers

CONSTANTS
    Null,
    Kinds,      \* the inputs considered, of "plan", "state", "policy", "snapshot"
    Things,     \* what may be at the path
    Cap,        \* MAX_PLAN_BYTES
    MaxEdits    \* how often others change what is at the path

VARIABLES
    kind, at,
    file, edits,   \* what is at the path, how often that was changed
    seen,          \* history: what was there since the loader started, until it had read
    rewritten,     \* history: the open file was written into while it was read
    size,          \* st_size of the first look
    raw,           \* what was read
    loaded,        \* the document accepted
    outcome        \* how the loader ended

loadVars == <<kind, at, file, edits, seen, rewritten, size, raw, loaded, outcome>>

-----------------------------------------------------------------------------
\* The parser's view of some bytes: not of the language, nested too deep for it,
\* of the language but beyond what Python builds (an integer of 4301 digits, a
\* date of the 13th month in YAML), nothing at all (an empty file; in JSON that
\* is an error and null is no object), something else than an object, an object.
Forms == {"garbage", "deep", "unbuildable", "nothing", "scalar", "object"}

\* An object: fits says whether the models of the kind validate it (for the
\* snapshot, whether its rates are numbers too), body what it then means.
IsText(text) ==
    /\ text.form \in Forms
    /\ text.keys \subseteq {"format_version", "resource_changes"}
    /\ text.fits \in BOOLEAN
    /\ text.version \in {"1", "1.2", "10.0", "2"}

\* denied: not even stat may look; locked: stat may, reading may not.
Nodes == {"absent", "denied", "directory", "locked", "file"}

ASSUME ThingsAssumption ==
    \A thing \in Things :
        /\ thing.node \in Nodes
        /\ thing.size \in Nat
        /\ thing.node = "file" => IsText(thing.text)
ASSUME BoundsAssumption ==
    /\ Kinds \subseteq {"plan", "state", "policy", "snapshot"}
    /\ Cap \in Nat /\ MaxEdits \in Nat
    /\ Null \notin Things

Places == {"stat", "is_dir", "read", "reading", "parse", "validate", "end"}

LoadTypeOK ==
    /\ kind \in Kinds
    /\ at \in Places
    /\ file \in Things
    /\ edits \in 0 .. MaxEdits
    /\ seen \subseteq Things
    /\ rewritten \in BOOLEAN
    /\ size \in Nat
    /\ raw \in Things \cup {Null}
    /\ outcome \in {"running", "accepted", "refused", "crashed"}

\* The snapshot is read without a look at it first.
LoadInit ==
    /\ kind \in Kinds
    /\ at = IF kind = "snapshot" THEN "read" ELSE "stat"
    /\ file \in Things
    /\ edits = 0
    /\ seen = {file}
    /\ rewritten = FALSE
    /\ size = 0
    /\ raw = Null
    /\ loaded = Null
    /\ outcome = "running"

Goto(from, to) == at = from /\ at' = to /\ UNCHANGED <<loaded, outcome>>

End(how) == at' = "end" /\ outcome' = how /\ loaded' = Null

\* PlanError or SnapshotError, which the command line turns into exit 2.
Refused == End("refused")

\* An exception no handler lists: a traceback and exit 1.
Escapes == End("crashed")

Accepted == at' = "end" /\ outcome' = "accepted" /\ loaded' = raw.text

-----------------------------------------------------------------------------
\* Mutant: a path that cannot be looked at has the size -1.
Stat_MinusOne ==
    /\ at = "stat"
    /\ IF file.node \in {"absent", "denied"}
       THEN Refused /\ size' = -1
       ELSE Goto("stat", "is_dir") /\ size' = file.size
    /\ UNCHANGED <<kind, file, edits, seen, rewritten, raw>>

Stat ==
    /\ at = "stat"
    /\ IF file.node \in {"absent", "denied"}
       THEN Refused /\ size' = size
       ELSE Goto("stat", "is_dir") /\ size' = file.size
    /\ UNCHANGED <<kind, file, edits, seen, rewritten, raw>>

\* Mutant: the cap is not looked at.
IsDir_NoCap ==
    /\ at = "is_dir"
    /\ IF file.node = "directory" THEN Refused ELSE Goto("is_dir", "read")
    /\ UNCHANGED <<kind, file, edits, seen, rewritten, size, raw>>

\* is_dir() looks again, and is False for what has gone; the cap is held
\* against the size of the first look.
IsDir ==
    /\ at = "is_dir"
    /\ IF file.node = "directory" \/ size > Cap THEN Refused ELSE Goto("is_dir", "read")
    /\ UNCHANGED <<kind, file, edits, seen, rewritten, size, raw>>

\* The is_dir() of some Python versions (3.11) passes on an error that is not
\* about existence, and no handler surrounds it.
IsDirRaises ==
    /\ at = "is_dir"
    /\ file.node = "denied"
    /\ Escapes
    /\ UNCHANGED <<kind, file, edits, seen, rewritten, size, raw>>

\* Mutant: what cannot be opened is looked for again.
Open_Retries ==
    /\ at = "read"
    /\ IF file.node = "file"
       THEN Goto("read", "reading") /\ raw' = file
       ELSE Goto("read", "stat") /\ raw' = raw
    /\ UNCHANGED <<kind, file, edits, seen, rewritten, size>>

\* read_bytes() opens what is at the path now; what takes its place later does
\* not matter to the open file.
Open ==
    /\ at = "read"
    /\ IF file.node = "file"
       THEN Goto("read", "reading") /\ raw' = file
       ELSE Refused /\ raw' = raw
    /\ UNCHANGED <<kind, file, edits, seen, rewritten, size>>

\* It has read the file to its end.
Read ==
    /\ Goto("reading", "parse")
    /\ UNCHANGED <<kind, file, edits, seen, rewritten, size, raw>>

\* Which exceptions of the parser a loader lists: RecursionError all but the
\* snapshot's, ValueError (of which a syntax error is one) only the snapshot's.
Unlisted(form) == form = IF kind = "snapshot" THEN "deep" ELSE "unbuildable"

\* A policy file without contents means the built-in defaults.
Parse ==
    /\ at = "parse"
    /\ CASE Unlisted(raw.text.form) -> Escapes
         [] raw.text.form = "object" -> Goto("parse", "validate")
         [] raw.text.form = "nothing" /\ kind = "policy" -> Accepted
         [] OTHER -> Refused
    /\ UNCHANGED <<kind, file, edits, seen, rewritten, size, raw>>

\* Mutant: a state is asked for the keys of a plan.
RequiredKeys_Shared ==
    IF kind \in {"plan", "state"} THEN {"format_version", "resource_changes"} ELSE {}

RequiredKeys ==
    CASE kind = "plan"  -> {"format_version", "resource_changes"}
      [] kind = "state" -> {"format_version"}
      [] OTHER          -> {}

\* Mutant: any version that begins with a 1.
VersionIsSupported_AnyOne == kind \in {"plan", "state"} => raw.text.version # "2"

VersionIsSupported == kind \in {"plan", "state"} => raw.text.version \in {"1", "1.2"}

Validate ==
    /\ at = "validate"
    /\ IF RequiredKeys \subseteq raw.text.keys /\ raw.text.fits /\ VersionIsSupported
       THEN Accepted ELSE Refused
    /\ UNCHANGED <<kind, file, edits, seen, rewritten, size, raw>>

LoadStep == Stat \/ IsDir \/ IsDirRaises \/ Open \/ Read \/ Parse \/ Validate

\* Others replace, remove, lock or grow what is at the path.
Replace ==
    /\ at \in {"stat", "is_dir", "read"}
    /\ edits < MaxEdits
    /\ file' \in Things \ {file}
    /\ edits' = edits + 1
    /\ seen' = seen \cup {file'}
    /\ UNCHANGED <<kind, at, rewritten, size, raw, loaded, outcome>>

\* Others write into the file while it is read: what the loader gets may be the
\* old, the new or any mixture, of which nobody can say what it will parse as.
Rewrite ==
    /\ at = "reading"
    /\ edits < MaxEdits
    /\ file' \in {thing \in Things \ {file} : thing.node = "file"}
    /\ raw' \in {thing \in Things : thing.node = "file"}
    /\ edits' = edits + 1
    /\ seen' = seen \cup {file'}
    /\ rewritten' = TRUE
    /\ UNCHANGED <<kind, at, size, loaded, outcome>>

Edit == Replace \/ Rewrite

LoadNext == LoadStep \/ Edit

LoadSpec == LoadInit /\ [][LoadNext]_loadVars

-----------------------------------------------------------------------------
\* Files the documentation of each kind describes.
Described(text) ==
    \/ /\ text.form = "object" /\ text.fits
       /\ kind = "plan"  => {"format_version", "resource_changes"} \subseteq text.keys
       /\ kind = "state" => "format_version" \in text.keys
       /\ kind \in {"plan", "state"} => text.version \notin {"10.0", "2"}
    \/ text.form = "nothing" /\ kind = "policy"

\* Nothing is accepted that is no document of its kind, and nothing that was
\* not, as a whole, at the path at one moment of the loading, unless the file
\* was written into while it was read, which the loader cannot tell; an input
\* that cannot be read is never taken for an empty one (R2, R9, R13).
AcceptedWasThere ==
    outcome = "accepted" =>
        /\ Described(loaded)
        /\ rewritten \/ \E thing \in seen : thing.node = "file" /\ thing.text = loaded

\* A run is turned away, by a diagnostic or a traceback, only if at some moment
\* of the loading something other than a good file was at the path, or the file
\* was written into while it was read.
RefusalIsEarned ==
    outcome \in {"refused", "crashed"} =>
        rewritten \/ \E thing \in seen :
            thing.node # "file" \/ thing.size > Cap \/ ~Described(thing.text)

\* "A 50 MB size cap is enforced before the file is read": more is read only of
\* what took the place of something smaller after the first look.
CapIsEnforced ==
    kind # "snapshot" /\ raw # Null /\ raw.size > Cap =>
        \E earlier \in seen :
            earlier.node \notin {"absent", "denied"} /\ earlier.size <= Cap

\* "Unknown/hostile structures fail closed with exit 2": a loader ends with a
\* document or with a diagnostic.
FailsClosed == outcome # "crashed"
=============================================================================
