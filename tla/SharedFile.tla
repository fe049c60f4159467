---------------------------- MODULE SharedFile ----------------------------
(***************************************************************************)
(* What StorageAdapter.write and write_with_etag promise about one file    *)
(* (adapter.py, "Upload file" / "Conditional write"), in one step where    *)
(* the backends take many: a call stores the whole of its data at once, at *)
(* some moment while it runs (again when it is tried again), and returns   *)
(* without an error only as it stores it.  A write with overwrite=False    *)
(* replaces nothing but its own data.  Where the service compares etags as *)
(* it writes, an update replaces only what its caller has read.            *)
(***************************************************************************)
CONSTANTS
  Caller,  \* threads that use the file
  Data,    \* what they store
  NoFile   \* the file does not exist, and is not in Data

VARIABLES
  file,      \* what is in the file, or NoFile
  phase,     \* of each caller: "idle", "reading", "writing" or "updating"
  data,      \* what its call is to store; NoFile when it has nothing to
  create,    \* the callers of write with overwrite=False
  current,   \* the callers that have read what the file is still
  delivered, \* the callers whose last call returned without an error
  compares   \* does the service compare etags as it writes?

calls == <<phase, data, create, delivered>>
vars == <<file, calls, current, compares>>

Init ==
  /\ file = NoFile
  /\ phase = [c \in Caller |-> "idle"]
  /\ data = [c \in Caller |-> NoFile]
  /\ create = {} /\ current = {} /\ delivered = {}
  /\ compares \in BOOLEAN

\* What was read is out of date when the file changes.
Current(readers) == current' = IF file' = file THEN readers ELSE {}

To(c, p, d) ==
  /\ phase' = [phase EXCEPT ![c] = p]
  /\ data' = [data EXCEPT ![c] = d]

Write(c, d) ==
  /\ phase[c] = "idle"
  /\ To(c, "writing", d)
  /\ create' \in {create, create \cup {c}}
  /\ delivered' = delivered \ {c}
  /\ UNCHANGED <<file, current, compares>>

\* An update reads before it has something to store.
Update(c) ==
  /\ phase[c] = "idle"
  /\ To(c, "reading", NoFile)
  /\ delivered' = delivered \ {c}
  /\ UNCHANGED <<file, create, current, compares>>

\* It has read the file, or found none.
Prepare(c, d) ==
  /\ phase[c] = "reading"
  /\ To(c, "updating", d)
  /\ \/ file # NoFile /\ current' = current \cup {c}
     \/ file = NoFile /\ UNCHANGED current
  /\ UNCHANGED <<file, create, delivered, compares>>

Return(c) ==
  /\ To(c, "idle", NoFile)
  /\ create' = create \ {c}

Store(c) ==
  /\ phase[c] \in {"writing", "updating"}
  /\ c \in create => file \in {NoFile, data[c]}
  /\ phase[c] = "updating" /\ compares => c \in current
  /\ file' = data[c]
  /\ \/ UNCHANGED calls /\ Current(current)
     \/ /\ Return(c) /\ Current(current \ {c})
        /\ delivered' \in {delivered \ {c}, delivered \cup {c}}
  /\ UNCHANGED compares

\* A call ends with an error and has done nothing with this step.
Raise(c) ==
  /\ phase[c] # "idle"
  /\ Return(c) /\ current' = current \ {c} /\ delivered' = delivered \ {c}
  /\ UNCHANGED <<file, compares>>

Delete ==
  /\ file' = NoFile
  /\ Current(current)
  /\ UNCHANGED <<calls, compares>>

Next ==
  \/ \E c \in Caller :
       \/ Update(c) \/ Store(c) \/ Raise(c)
       \/ \E d \in Data : Write(c, d) \/ Prepare(c, d)
  \/ Delete

Spec == Init /\ [][Next]_vars
=============================================================================
