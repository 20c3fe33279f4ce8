--------------------------- MODULE FileReplacement ---------------------------
(***************************************************************************)
(* What the persistence layer promises about one file.  A document knows   *)
(* the bytes it last saw in the file and asks for attempts to replace      *)
(* them; each attempt replaces the file at most once, by its own payload,  *)
(* in one step.  Bytes an attempt takes out of the file without knowing    *)
(* them are held until the user discards them, an answer given to the      *)
(* document is true, and what was answered "committed" is never undone.    *)
(***************************************************************************)
CONSTANTS
  Attempts,   \* identifiers of save attempts
  Contents,   \* byte sequences a file can hold
  Nothing     \* no file, no bytes, no answer

VARIABLES
  file,       \* the bytes at the path, or Nothing
  known,      \* the bytes the open document believes are there
  put,        \* per attempt, the payload it put in place of the file
  held,       \* per attempt, the unknown bytes it displaced and still holds
  told        \* per attempt, the answer the document was given

vars == <<file, known, put, held, told>>

OrNothing == Contents \cup {Nothing}

TypeOK ==
  /\ file \in OrNothing
  /\ known \in OrNothing
  /\ put \in [Attempts -> OrNothing]
  /\ held \in [Attempts -> OrNothing]
  /\ told \in [Attempts -> {"committed", "notCommitted", Nothing}]

Init ==
  /\ file \in Contents
  /\ known = Nothing
  /\ put = [c \in Attempts |-> Nothing]
  /\ held = [c \in Attempts |-> Nothing]
  /\ told = [c \in Attempts |-> Nothing]

\* Another program writes, replaces or removes the file.
External ==
  /\ file' \in OrNothing
  /\ UNCHANGED <<known, put, held, told>>

\* The document reads the file, or its process ends.
Learn ==
  /\ known' \in {file, Nothing}
  /\ UNCHANGED <<file, put, held, told>>

\* The payload of attempt c takes the place of the file; bytes the document
\* did not know to be there are held.
Replace(c) ==
  /\ put[c] = Nothing /\ told[c] = Nothing
  /\ file # Nothing /\ known # Nothing
  /\ \E payload \in Contents :
       /\ file' = payload
       /\ put' = [put EXCEPT ![c] = payload]
  /\ held' = IF file = known THEN held ELSE [held EXCEPT ![c] = file]
  /\ UNCHANGED <<known, told>>

\* A power loss takes back a replacement the document was not told of.
\* Bytes it held are the file again, or are still held.
Undo(c) ==
  /\ put[c] # Nothing /\ told[c] # "committed"
  /\ put' = [put EXCEPT ![c] = Nothing]
  /\ file' \in Contents
  /\ held' \in {held, [held EXCEPT ![c] = Nothing]}
  /\ held[c] \in {Nothing, file', held'[c]}
  /\ known' = Nothing
  /\ UNCHANGED told

\* An answer is true when it is given, and the document then knows the file
\* it committed.
Tell(c) ==
  /\ told[c] = Nothing
  /\ \/ /\ put[c] # Nothing
        /\ told' = [told EXCEPT ![c] = "committed"]
        /\ known' = put[c]
     \/ /\ put[c] = Nothing
        /\ told' = [told EXCEPT ![c] = "notCommitted"]
        /\ UNCHANGED known
  /\ UNCHANGED <<file, put, held>>

\* The user gives up bytes an attempt displaced.
Discard(c) ==
  /\ held[c] # Nothing
  /\ held' = [held EXCEPT ![c] = Nothing]
  /\ UNCHANGED <<file, known, put, told>>

Next ==
  \/ External
  \/ Learn
  \/ \E c \in Attempts : Replace(c) \/ Undo(c) \/ Tell(c) \/ Discard(c)

Spec == Init /\ [][Next]_vars
=============================================================================
