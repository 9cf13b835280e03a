--------------------------- MODULE VersionedRecord ---------------------------
(***************************************************************************)
(* What the inventory promises about the metadata history of its systems,  *)
(* told without requests, sessions or row locks: every change of a system  *)
(* is one step that replaces its content and files one entry, numbered     *)
(* next in line, saying what the content was and what it became.           *)
(***************************************************************************)
EXTENDS Naturals

CONSTANTS System, Content, Nothing

VARIABLES
    version,  \* version[s]: the number of changes of s, its creation included
    content,  \* content[s]: what s is now, Nothing before it is created
    history   \* history[s]: the entries filed for s

recordVars == <<version, content, history>>

Entry(v, old, new) == [version |-> v, before |-> old, content |-> new]

Init ==
    /\ version = [s \in System |-> 0]
    /\ content = [s \in System |-> Nothing]
    /\ history = [s \in System |-> {}]

Change(s, c) ==
    /\ c # content[s]
    /\ version' = [version EXCEPT ![s] = @ + 1]
    /\ content' = [content EXCEPT ![s] = c]
    /\ history' = [history EXCEPT ![s] = @ \cup {Entry(version[s] + 1, content[s], c)}]

Next == \E s \in System, c \in Content : Change(s, c)

Spec == Init /\ [][Next]_recordVars
=============================================================================
