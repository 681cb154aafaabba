----------------------------- MODULE MCSyncSend -----------------------------
(* Values of the constants of SyncSend for TLC.                            *)
EXTENDS SyncSend

CONSTANTS a, b, c, d

None == [t \in Threads |-> {}]

(* Nobody sends or posts to a thread that waits for him.                   *)
ForwardSends == [None EXCEPT ![a] = {b, c}, ![b] = {c}, ![d] = {b}]
ForwardPosts == [None EXCEPT ![a] = {c}, ![d] = {b}]

(* Two threads send to each other.                                         *)
MutualSends == [None EXCEPT ![a] = {b}, ![b] = {a}]
=============================================================================
