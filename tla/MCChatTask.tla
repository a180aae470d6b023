---------------------------- MODULE MCChatTask ----------------------------
(* A small instance of ChatTask for TLC. *)
EXTENDS ChatTask, TLC

\* Chats and tasks are interchangeable, and the run checks safety only; the
\* slots of the processes are not, the first free one being taken.
Symmetry == Permutations(Chat) \union Permutations(Task)
============================================================================
