------------------------------- MODULE OneText -------------------------------
(***************************************************************************)
(* What `load` and -L promise: the interpreter reads one text.  A file's   *)
(* contents stand in it where the command that loads the file ended, and   *)
(* whatever was to be read next follows.                                   *)
(***************************************************************************)
EXTENDS Sequences

CONSTANTS
    Lines,          \* what may be typed, as sequences of tokens
    Contents        \* what a file may hold, likewise

VARIABLES
    ahead,          \* the text that is still to be read
    latest          \* the token read last

vars == <<ahead, latest>>

Init == ahead = <<>> /\ latest = <<>>

\* The token is read, and it may end a load command.
Read ==
    /\ ahead # <<>>
    /\ latest' = Head(ahead)
    /\ \/ ahead' = Tail(ahead)
       \/ \E c \in Contents : ahead' = c \o Tail(ahead)

\* The user types, or the next -L file is opened.
Type == \E l \in Lines : ahead' = ahead \o l /\ UNCHANGED latest

Open == \E c \in Contents : ahead = <<>> /\ ahead' = c /\ UNCHANGED latest

Next == Read \/ Type \/ Open

Spec == Init /\ [][Next]_vars

=============================================================================
