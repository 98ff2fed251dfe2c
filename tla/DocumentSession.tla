--------------------------- MODULE DocumentSession ---------------------------
(***************************************************************************)
(* The bounded documents connector: reads and transforms of documents in   *)
(* the workspace, charged to a session, with the record of completed       *)
(* transforms.  A document's content is the set of texts it contains.      *)
(***************************************************************************)
EXTENDS Integers, Sequences, FiniteSets

CONSTANTS
    Paths,          \* path -> how the policy sees it (see the MC module)
    Content,        \* path -> the texts initially on disk there; {} when absent
    TransformOps,   \* the transforms
    DocBudget,      \* the budget the connector was built with
    DefaultDocBudget, MaxDocEpoch, MaxDocLives   \* the default, bounds of the model

ASSUME DocAssumption == DocBudget \in Nat /\ DefaultDocBudget \in Nat

VARIABLES
    doc,            \* the session
    disk,           \* path -> content
    docDone, docRuns, docSaved, docLives,
    proof           \* the evidence of the last transform and what became of it

docVars == <<doc, disk, docDone, docRuns, docSaved, docLives, proof>>

NoProof == [path |-> "none", content |-> {}, state |-> "none"]
FreshDoc(budget) == [state |-> "open", active |-> "none", epoch |-> 0, used |-> 0,
                     limit |-> budget]

DocInit == /\ doc = FreshDoc(DocBudget) /\ disk = Content
           /\ docDone = {} /\ docRuns = <<>> /\ docSaved = {} /\ docLives = 0
           /\ proof = NoProof

-----------------------------------------------------------------------------
\* Policy

Confined(p) == Paths[p].confined
Blocked(p) == Paths[p].blocked
\* An output is written under the last segment of the requested path.
OutputPath(p) == Paths[p].name
ActiveContent(content) == "script" \in content
Consequence(p) == Paths[p].consequential

\* A document can be read: inside the workspace, of an allowed type, present,
\* within the size bound and, if a PDF, without active content.
Readable(p) ==
    /\ Confined(p) /\ ~Blocked(p) /\ disk[p] # {}
    /\ Paths[p].pdf => ~ActiveContent(disk[p])

TransformKey(op, inputs, output) == [op |-> op, inputs |-> inputs, output |-> output]

-----------------------------------------------------------------------------
\* The session

DocCanSpend == doc.state = "open" /\ doc.used < doc.limit
DocSpent == [doc EXCEPT !.used = @ + 1]
NotedDoc(d, p) == [d EXCEPT !.active = p, !.epoch = @ + 1]

\* Reopening a closed session builds one with the default budget.
DocTurn ==
    /\ \/ /\ doc.state = "closed" /\ docLives < MaxDocLives
          /\ doc' = FreshDoc(DefaultDocBudget) /\ docLives' = docLives + 1
       \/ /\ \/ doc' = [doc EXCEPT !.state = "closed"]
             \/ doc.state = "open" /\ doc' = [doc EXCEPT !.state = "suspended"]
             \/ doc.state = "suspended" /\ doc' = [doc EXCEPT !.state = "open"]
          /\ UNCHANGED docLives
    /\ UNCHANGED <<disk, docDone, docRuns, docSaved, proof>>

\* Inspecting a document or extracting its text makes it the active one.
DocInspect(p) ==
    /\ DocCanSpend /\ doc.epoch < MaxDocEpoch
    /\ doc' = IF Readable(p) THEN NotedDoc(DocSpent, p) ELSE DocSpent
    /\ UNCHANGED <<disk, docDone, docRuns, docSaved, docLives, proof>>

\* Reading a page or the tables does not.
DocRead(p) ==
    /\ DocCanSpend /\ doc' = DocSpent
    /\ UNCHANGED <<disk, docDone, docRuns, docSaved, docLives, proof>>

\* What a transform writes: everything that was extracted from its inputs.
Combined(inputs) == UNION {disk[p] : p \in inputs}

\* The transform's own checks come before the charge, the backend's after it.
DocTransform(op, inputs, output) ==
    LET key == TransformKey(op, inputs, output)
        written == Combined(inputs)
        out == OutputPath(output)
    IN /\ DocCanSpend /\ doc.epoch < MaxDocEpoch
       /\ \A p \in inputs \cup {output} : Confined(p) /\ ~Blocked(p)
       /\ ~Consequence(output)
       /\ key \notin docDone
       /\ IF \E p \in inputs : ~Readable(p)
          THEN doc' = DocSpent /\ UNCHANGED <<disk, docDone, docRuns, proof>>
          ELSE /\ disk' = [disk EXCEPT ![out] = written]
               /\ docRuns' = Append(docRuns, key) /\ docDone' = docDone \cup {key}
               /\ doc' = NotedDoc(DocSpent, out)
               /\ proof' = [path |-> output, content |-> written, state |-> "reported"]
       /\ UNCHANGED <<docSaved, docLives>>

\* The observer re-inspects the path the request named, at the session's cost.
DocVerify ==
    /\ proof.state = "reported" /\ DocCanSpend /\ doc.epoch < MaxDocEpoch
    /\ doc' = IF Readable(proof.path) THEN NotedDoc(DocSpent, proof.path) ELSE DocSpent
    /\ proof' = [proof EXCEPT !.state =
                    IF Readable(proof.path) /\ disk[proof.path] = proof.content
                    THEN "confirmed" ELSE "refused"]
    /\ UNCHANGED <<disk, docDone, docRuns, docSaved, docLives>>

DocCheckpoint == /\ docSaved # docDone /\ docSaved' = docDone
                 /\ UNCHANGED <<doc, disk, docDone, docRuns, docLives, proof>>

\* The workspace outlives the process.
DocRestart == /\ docLives < MaxDocLives /\ docLives' = docLives + 1
              /\ doc' = FreshDoc(DocBudget)
              /\ docDone' = docSaved /\ docRuns' = <<>> /\ proof' = NoProof
              /\ UNCHANGED <<disk, docSaved>>

DocNext ==
    \/ DocTurn
    \/ \E p \in DOMAIN Paths : DocInspect(p) \/ DocRead(p)
    \/ \E op \in TransformOps, inputs \in (SUBSET DOMAIN Paths) \ {{}},
          output \in DOMAIN Paths : DocTransform(op, inputs, output)
    \/ DocVerify \/ DocCheckpoint \/ DocRestart

DocSpec == DocInit /\ [][DocNext]_docVars
=============================================================================
