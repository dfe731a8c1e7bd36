----------------------------- MODULE FileLease ------------------------------
(* What recording outputs promise about files, without libobs, signals or    *)
(* IPC calls: an output leases a path no other output leases, its muxer      *)
(* writes only the path it leases, and the lease outlives the writing.       *)
CONSTANTS Outputs, Paths, NoPath

VARIABLES lease,    \* the path each output leases, or NoPath
          writes    \* the path each output's muxer is writing, or NoPath

vars == <<lease, writes>>

Init ==
    /\ lease = [o \in Outputs |-> NoPath]
    /\ writes = [o \in Outputs |-> NoPath]

\* An output that writes nothing takes a free path, dropping the one it had.
Take(o, p) ==
    /\ writes[o] = NoPath
    /\ \A q \in Outputs \ {o} : lease[q] # p
    /\ lease' = [lease EXCEPT ![o] = p]
    /\ UNCHANGED writes

Drop(o) ==
    /\ writes[o] = NoPath
    /\ lease' = [lease EXCEPT ![o] = NoPath]
    /\ UNCHANGED writes

BeginWriting(o) ==
    /\ writes[o] = NoPath
    /\ lease[o] # NoPath
    /\ writes' = [writes EXCEPT ![o] = lease[o]]
    /\ UNCHANGED lease

EndWriting(o) ==
    /\ writes[o] # NoPath
    /\ writes' = [writes EXCEPT ![o] = NoPath]
    /\ UNCHANGED lease

Next == \E o \in Outputs :
    \/ \E p \in Paths : Take(o, p)
    \/ Drop(o) \/ BeginWriting(o) \/ EndWriting(o)

Spec == Init /\ [][Next]_vars
=============================================================================
