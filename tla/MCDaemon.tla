------------------------------ MODULE MCDaemon ------------------------------
(***************************************************************************)
(* Instances of Daemon for TLC, and the properties that hold only for some *)
(* configurations.                                                         *)
(***************************************************************************)
EXTENDS Daemon, TLC

CONSTANTS p1, p2, p3, c1, c2, c3, A, B

Good(port) == [port |-> port, known |-> TRUE, pass |-> TRUE]

\* What the administrator may write: nothing new, another port, no port at
\* all, an option UpdateOpts does not know, or a password file out of reach.
AllConfs == {Good(A), Good(B), Good(Unset),
             [port |-> A, known |-> FALSE, pass |-> TRUE],
             [port |-> A, known |-> TRUE, pass |-> FALSE]}
OnePort  == {Good(A)}
TwoPorts == {Good(A), Good(B)}

Symm == Permutations({p1, p2, p3}) \cup Permutations({c1, c2})

\* The manual page: the server "Listens on port port".  A connection to the
\* port the daemon was configured with is accepted while the daemon lives.
ListensOnPort ==
    \A c \in Conn, q \in Port :
        (daemonPort = q /\ \E i \in 1 .. Len(queue[q]) : queue[q][i] = c)
            ~> \/ daemonPort # q
               \/ \A i \in 1 .. Len(queue[q]) : queue[q][i] # c

=============================================================================
