---------------------------- MODULE ServiceLinks ----------------------------
(***************************************************************************)
(* The exchange of service tables between two nodes                        *)
(* (crates/parrot-remote/src/system/receptionist.rs) over the connections  *)
(* they dial, register and lose (register_link_at, direct_sender_of and    *)
(* seeds.rs in system).  A node sends its complete table over the last     *)
(* connection it registered, and accepts a peer's only from there.  A      *)
(* table is a version: the number of changes made to it.                   *)
(***************************************************************************)
EXTENDS Naturals, FiniteSets, Sequences, SequencesExt

CONSTANTS
    Peer,       \* the two nodes
    Dialer,     \* the nodes with the other one among their seeds
    MaxChanges, \* bound on the changes of a table
    MaxLosses,  \* bound on the connections that break
    MaxDeaths   \* bound on the deaths membership is wrong about

VARIABLES
    dialled,    \* the number of connections made so far; a connection is a number
    dialling,   \* dialling[n]: the connection n's attempt is about, 0 for none
    due,        \* due[n]: connections n is about to register
    links,      \* links[n]: connections registered at n, oldest first
    broken,     \* connections that have failed
    services,   \* services[n]: the version of n's own registrations
    learned,    \* learned[n]: the version n has of the other's, 0 for none
    syncs,      \* syncs[n]: snapshots on their way to n, <<connection, version>>
    dead,       \* the nodes that do not have their peer as a living member
    deaths

linkVars == <<dialled, dialling, due, links, broken, services, learned, syncs, dead, deaths>>

Other(n) == CHOOSE m \in Peer : m # n

\* direct_sender_of: the newest connection that is not closed.
Direct(n) == LET open == SelectSeq(links[n], LAMBDA c : c \notin broken)
             IN  IF open = <<>> THEN 0 ELSE open[Len(open)]

-----------------------------------------------------------------------------
(* Connections *)

\* maintain: a seed without a connection is dialled, one attempt at a time.  Each
\* end registers the connection when its side of the handshake is done.
Dial(n) ==
    /\ n \in Dialer /\ Direct(n) = 0 /\ dialling[n] = 0
    /\ dialled' = dialled + 1
    /\ dialling' = [dialling EXCEPT ![n] = dialled + 1]
    /\ due' = [m \in Peer |-> due[m] \cup {dialled + 1}]
    /\ UNCHANGED <<links, broken, services, learned, syncs, dead, deaths>>

\* register_link_at: a connection to a peer that has one already becomes the
\* newest.
RegisterLink(n, c) ==
    /\ c \in due[n]
    /\ dialling' = [dialling EXCEPT ![n] = IF @ = c THEN 0 ELSE @]
    /\ due' = [due EXCEPT ![n] = @ \ {c}]
    /\ links' = [links EXCEPT ![n] = Append(@, c)]
    /\ UNCHANGED <<dialled, broken, services, learned, syncs, dead, deaths>>

Lose(c) ==
    /\ c \in 1..dialled \ broken /\ \E n \in Peer : c \in Range(links[n])
    /\ Cardinality(broken) < MaxLosses
    /\ broken' = broken \cup {c}
    /\ UNCHANGED <<dialled, dialling, due, links, services, learned, syncs, dead, deaths>>

\* Faulty: a closed connection takes the newer ones to its node with it.
ForgetLinkNode(n, c) ==
    /\ c \in broken /\ c \in Range(links[n])
    /\ links' = [links EXCEPT ![n] = <<>>]
    /\ syncs' = [syncs EXCEPT ![n] = {}]
    /\ UNCHANGED <<dialled, dialling, due, broken, services, learned, dead, deaths>>

\* The watcher of a closed connection removes that one only; what it carried is
\* lost.
ForgetLink(n, c) ==
    /\ c \in broken /\ c \in Range(links[n])
    /\ links' = [links EXCEPT ![n] = SelectSeq(@, LAMBDA d : d # c)]
    /\ syncs' = [syncs EXCEPT ![n] = {s \in @ : s[1] # c}]
    /\ UNCHANGED <<dialled, dialling, due, broken, services, learned, dead, deaths>>

-----------------------------------------------------------------------------
(* Snapshots *)

\* A registration or withdrawal at n.
ChangeServices(n) ==
    /\ services[n] < MaxChanges
    /\ services' = [services EXCEPT ![n] = @ + 1]
    /\ UNCHANGED <<dialled, dialling, due, links, broken, learned, syncs, dead, deaths>>

\* The ticker of start_receptionist: the services of a dead peer are removed,
\* and the table is sent; a queue with a snapshot in it is full.
SyncTick(n) ==
    /\ learned' = [learned EXCEPT ![n] = IF n \in dead THEN 0 ELSE @]
    /\ LET c == Direct(n) IN
        syncs' = IF c = 0 \/ \E s \in syncs[Other(n)] : s[1] = c THEN syncs
                 ELSE [syncs EXCEPT ![Other(n)] = @ \cup {<<c, services[n]>>}]
    /\ UNCHANGED <<dialled, dialling, due, links, broken, services, dead, deaths>>

\* receive: frames of a dead peer or of a superseded connection are ignored.
ReceiveSync(n, s) ==
    /\ s \in syncs[n] /\ s[1] \in Range(links[n])
    /\ syncs' = [syncs EXCEPT ![n] = @ \ {s}]
    /\ learned' = [learned EXCEPT ![n] = IF n \notin dead /\ Direct(n) = s[1] THEN s[2] ELSE @]
    /\ UNCHANGED <<dialled, dialling, due, links, broken, services, dead, deaths>>

\* Membership (Swim) loses the peer and has it back: the provisional entry of a
\* new connection, or gossip that refutes its death.
Bury(n) ==
    /\ n \notin dead /\ deaths < MaxDeaths
    /\ dead' = dead \cup {n} /\ deaths' = deaths + 1
    /\ UNCHANGED <<dialled, dialling, due, links, broken, services, learned, syncs>>

Revive(n) ==
    /\ n \in dead
    /\ dead' = dead \ {n}
    /\ UNCHANGED <<dialled, dialling, due, links, broken, services, learned, syncs, deaths>>

-----------------------------------------------------------------------------
LinksInit ==
    /\ dialled = 0 /\ broken = {} /\ dead = Peer /\ deaths = 0
    /\ dialling = [n \in Peer |-> 0] /\ due = [n \in Peer |-> {}]
    /\ links = [n \in Peer |-> <<>>]
    /\ services = [n \in Peer |-> 1] /\ learned = [n \in Peer |-> 0]
    /\ syncs = [n \in Peer |-> {}]

LinksNext ==
    \/ \E n \in Peer :
          \/ Dial(n) \/ ChangeServices(n) \/ SyncTick(n) \/ Bury(n) \/ Revive(n)
          \/ \E c \in 1..dialled : RegisterLink(n, c) \/ ForgetLink(n, c)
          \/ \E s \in syncs[n] : ReceiveSync(n, s)
    \/ \E c \in 1..dialled : Lose(c)

\* Seeds are dialled again, handshakes end, the ticker runs, connections deliver
\* what they carry, and membership comes to see that the peer is alive.
LinksFairness ==
    /\ \A n \in Dialer : WF_dialled(Dial(n))
    /\ WF_dead(\E n \in Peer : Revive(n))
    /\ WF_links(\E n \in Peer : \E c \in 1..dialled : RegisterLink(n, c))
    /\ WF_links(\E n \in Peer : \E c \in 1..dialled : ForgetLink(n, c))
    /\ \A n \in Peer :
        /\ WF_<<learned, syncs>>(SyncTick(n))
        /\ \A c \in 1..(Cardinality(Dialer) * (MaxLosses + 1)) :
              WF_syncs(\E s \in syncs[n] : s[1] = c /\ ReceiveSync(n, s))

LinksSpec == LinksInit /\ [][LinksNext]_linkVars /\ LinksFairness

-----------------------------------------------------------------------------
(* Properties *)

\* Every node has the other's services as they are.
Converged == \A n \in Peer : learned[n] = services[Other(n)]

\* "The next periodic complete snapshot repairs lost registration AND
\* withdrawal" (start_receptionist): once changes, losses and false deaths end,
\* the tables come to be right.
TablesConverge == <>[]Converged

=============================================================================
