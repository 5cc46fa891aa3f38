----------------------------- MODULE FeedServer -----------------------------
(***************************************************************************)
(* The traffic feed, roles/atc_inject/files/feed/atc_feed.py: one thread   *)
(* sends the frames of every tick to the clients of two ports, and a       *)
(* thread per port accepts clients.  A port's list of clients is guarded   *)
(* by a lock, which is held while a frame is sent to all of them and       *)
(* sendall waits for room in their socket buffers.                         *)
(*                                                                         *)
(* One flight is on the air.  A frame is told by its place in the round    *)
(* that is repeated, and crosses a socket in Parts.                        *)
(***************************************************************************)
EXTENDS Naturals, Sequences, SequencesExt

CONSTANTS
    Clients,
    Port,         \* the port that a client connects to
    NoClient,
    IdentEvery,   \* an identification is sent every so many ticks, 5
    Parts,        \* pieces in which a frame crosses a socket
    Room          \* pieces that fit into a socket's buffers

ASSUME FeedAssumption ==
    /\ Port \in [Clients -> {"beast", "sbs"}]
    /\ NoClient \notin Clients
    /\ {IdentEvery, Parts, Room} \subseteq Nat \ {0}

VARIABLES
    place,     \* the frame that run() sends or is about to send
    sending,   \* the sender holds the lock of that frame's port
    at,        \* index in _socks of the client that is being sent to
    part,      \* the piece that is sent next
    dead,      \* the local list of clients whose sendall raised
    socks,     \* per port, Server._socks
    backlog,   \* per port, the queue of the listening socket
    accepted,  \* per port, the connection in the hands of the accept thread
    conn,      \* where a client's connection is
    side,      \* what the client has done with its end
    buffer,    \* pieces in the socket's buffers
    last       \* the piece that the client read last

sender == <<place, sending, at, part, dead>>
vars == <<sender, socks, backlog, accepted, conn, side, buffer, last>>

Ports == {"beast", "sbs"}

-----------------------------------------------------------------------------
(* The round *)

On(port, kind) == [port |-> port, kind |-> kind]

IdentFrames == <<On("beast", "identification"), On("sbs", "MSG,1")>>
TickFrames ==
    <<On("beast", "even"), On("beast", "odd"), On("beast", "velocity"),
      On("sbs", "MSG,3"), On("sbs", "MSG,4")>>

\* The first tick of the round begins with the identification.
Round == [n \in 1..(2 + 5 * IdentEvery) |->
             IF n <= 2 THEN IdentFrames[n] ELSE TickFrames[((n - 3) % 5) + 1]]
Places == 1..Len(Round)

After(p) == (p % Len(Round)) + 1

\* The first frame after place p that goes out on a port.
NextOn(to, p) ==
    LET ahead(d) == ((p + d - 1) % Len(Round)) + 1
    IN  ahead(CHOOSE d \in Places :
                  Round[ahead(d)].port = to /\ \A e \in 1..(d - 1) : Round[ahead(e)].port # to)

Pieces == [place : Places, part : 1..Parts]
Nothing == [place |-> 0, part |-> 0]
PieceAfter(x) ==
    IF x.part < Parts
    THEN [x EXCEPT !.part = @ + 1]
    ELSE [place |-> NextOn(Round[x.place].port, x.place), part |-> 1]

Init ==
    /\ place = 1 /\ sending = FALSE /\ at = 0 /\ part = 1 /\ dead = {}
    /\ socks = [p \in Ports |-> <<>>]
    /\ backlog = [p \in Ports |-> <<>>]
    /\ accepted = [p \in Ports |-> NoClient]
    /\ conn = [c \in Clients |-> "away"]
    /\ side = [c \in Clients |-> "open"]
    /\ buffer = [c \in Clients |-> <<>>]
    /\ last = [c \in Clients |-> Nothing]

-----------------------------------------------------------------------------
(* Server.send, called by the one thread of run() *)

port == Round[place].port
Target == socks[port][at]
InLoop == sending /\ at <= Len(socks[port])

TakeLock ==
    /\ ~sending
    /\ sending' = TRUE
    /\ at' = 1
    /\ UNCHANGED <<place, part, dead, socks, backlog, accepted, conn, side, buffer, last>>

NextPart ==
    /\ part' = IF part < Parts THEN part + 1 ELSE 1
    /\ at' = IF part < Parts THEN at ELSE at + 1
    /\ UNCHANGED <<place, sending, dead, socks, backlog, accepted, conn, last>>

\* sendall goes on when there is room.
SendPart ==
    /\ InLoop
    /\ side[Target] = "open"
    /\ Len(buffer[Target]) < Room
    /\ buffer' = [buffer EXCEPT ![Target] = Append(@, [place |-> place, part |-> part])]
    /\ UNCHANGED side
    /\ NextPart

\* To a client that has closed, data can be sent once, until its reset
\* arrives.
SendPartInVain ==
    /\ InLoop
    /\ side[Target] = "closed"
    /\ side' = [side EXCEPT ![Target] = "reset"]
    /\ UNCHANGED buffer
    /\ NextPart

\* Mutant: the client is taken off the list that is being gone through.
SendFailsAtOnce ==
    /\ InLoop
    /\ side[Target] = "reset"
    /\ socks' = [socks EXCEPT ![port] = RemoveAt(@, at)]
    /\ conn' = [conn EXCEPT ![Target] = "away"]
    /\ at' = at + 1 /\ part' = 1
    /\ UNCHANGED <<place, sending, dead, backlog, accepted, side, buffer, last>>

\* OSError: the rest of the frame is not sent.
SendFails ==
    /\ InLoop
    /\ side[Target] = "reset"
    /\ dead' = dead \cup {Target}
    /\ at' = at + 1 /\ part' = 1
    /\ UNCHANGED <<place, sending, socks, backlog, accepted, conn, side, buffer, last>>

\* A list without those that are gone.
Without(list, gone) ==
    LET kept[n \in 0..Len(list)] ==
            IF n = 0 THEN <<>>
            ELSE IF list[n] \in gone THEN kept[n - 1] ELSE Append(kept[n - 1], list[n])
    IN  kept[Len(list)]

\* The dead are removed and closed, the lock is released, and run() goes on
\* to its next frame.
Release ==
    /\ sending /\ at > Len(socks[port])
    /\ sending' = FALSE /\ at' = 0 /\ dead' = {}
    /\ place' = After(place)
    /\ socks' = [socks EXCEPT ![port] = Without(@, dead)]
    /\ conn' = [c \in Clients |-> IF c \in dead THEN "away" ELSE conn[c]]
    /\ UNCHANGED <<part, backlog, accepted, side, buffer, last>>

Send == TakeLock \/ SendPart \/ SendPartInVain \/ SendFails \/ Release

-----------------------------------------------------------------------------
(* Server._accept, a thread per port *)

Accept(p) ==
    /\ accepted[p] = NoClient /\ backlog[p] # <<>>
    /\ accepted' = [accepted EXCEPT ![p] = Head(backlog[p])]
    /\ backlog' = [backlog EXCEPT ![p] = Tail(@)]
    /\ conn' = [conn EXCEPT ![Head(backlog[p])] = "accepted"]
    /\ UNCHANGED <<sender, socks, side, buffer, last>>

Unlocked(p) == ~(sending /\ port = p)

\* Mutant: the lock is tried, not waited for.
EnlistOrForget(p) ==
    /\ accepted[p] # NoClient
    /\ socks' = IF Unlocked(p) THEN [socks EXCEPT ![p] = Append(@, accepted[p])] ELSE socks
    /\ conn' = IF Unlocked(p) THEN [conn EXCEPT ![accepted[p]] = "listed"] ELSE conn
    /\ accepted' = [accepted EXCEPT ![p] = NoClient]
    /\ UNCHANGED <<sender, backlog, side, buffer, last>>

Enlist(p) ==
    /\ accepted[p] # NoClient
    /\ Unlocked(p)
    /\ socks' = [socks EXCEPT ![p] = Append(@, accepted[p])]
    /\ conn' = [conn EXCEPT ![accepted[p]] = "listed"]
    /\ accepted' = [accepted EXCEPT ![p] = NoClient]
    /\ UNCHANGED <<sender, backlog, side, buffer, last>>

-----------------------------------------------------------------------------
(* The clients: readsb on the beast port, taps on the other *)

Connect(c) ==
    /\ conn[c] = "away"
    /\ conn' = [conn EXCEPT ![c] = "backlog"]
    /\ backlog' = [backlog EXCEPT ![Port[c]] = Append(@, c)]
    /\ side' = [side EXCEPT ![c] = "open"]
    /\ buffer' = [buffer EXCEPT ![c] = <<>>]
    /\ last' = [last EXCEPT ![c] = Nothing]
    /\ UNCHANGED <<sender, socks, accepted>>

Read(c) ==
    /\ side[c] = "open" /\ buffer[c] # <<>>
    /\ last' = [last EXCEPT ![c] = Head(buffer[c])]
    /\ buffer' = [buffer EXCEPT ![c] = Tail(@)]
    /\ UNCHANGED <<sender, socks, backlog, accepted, conn, side>>

\* With unread data in its buffers the other side is reset at once.
Close(c) ==
    /\ conn[c] # "away" /\ side[c] = "open"
    /\ side' = [side EXCEPT ![c] = IF buffer[c] = <<>> THEN "closed" ELSE "reset"]
    /\ buffer' = [buffer EXCEPT ![c] = <<>>]
    /\ last' = [last EXCEPT ![c] = Nothing]
    /\ UNCHANGED <<sender, socks, backlog, accepted, conn>>

Next ==
    \/ Send
    \/ \E p \in Ports : Accept(p) \/ Enlist(p)
    \/ \E c \in Clients : Connect(c) \/ Read(c) \/ Close(c)

Spec == Init /\ [][Next]_vars

\* The threads run; a client reads what it is sent or closes.  The accept
\* thread gets a lock that is free again and again, at the latest when run()
\* sleeps.
FairSpec ==
    /\ Spec
    /\ WF_vars(Send)
    /\ \A p \in Ports : WF_vars(Accept(p)) /\ SF_vars(Enlist(p))
    /\ \A c \in Clients : WF_vars(Read(c))

-----------------------------------------------------------------------------
(* Properties *)

TypeOK ==
    /\ place \in Places /\ sending \in BOOLEAN
    /\ at \in Nat /\ part \in 1..Parts /\ dead \subseteq Clients
    /\ socks \in [Ports -> Seq(Clients)] /\ backlog \in [Ports -> Seq(Clients)]
    /\ accepted \in [Ports -> Clients \cup {NoClient}]
    /\ conn \in [Clients -> {"away", "backlog", "accepted", "listed"}]
    /\ side \in [Clients -> {"open", "closed", "reset"}]
    /\ buffer \in [Clients -> Seq(Pieces)] /\ \A c \in Clients : Len(buffer[c]) <= Room
    /\ last \in [Clients -> Pieces \cup {Nothing}]

\* What a client has read last and what is on its way to it.
Stream(c) == (IF last[c] = Nothing THEN <<>> ELSE <<last[c]>>) \o buffer[c]

\* The piece that a listed client is sent next: of the frame that is being
\* sent unless the client has all of it, or of the next one on its port.
Due(c) ==
    LET index == CHOOSE i \in 1..Len(socks[port]) : socks[port][i] = c
    IN  IF port # Port[c] \/ (sending /\ index < at)
        THEN [place |-> NextOn(Port[c], place), part |-> 1]
        ELSE [place |-> place, part |-> IF sending /\ index = at THEN part ELSE 1]

\* Whatever clients come, go and fail around it, a client receives whole
\* frames without a gap from the one after it was accepted, none twice and
\* none out of order, up to the very piece that is due: an odd position
\* always follows its even one (atc_feed.py 149-171, 224-237).
StreamsAreGapless ==
    \A c \in Clients :
        side[c] = "open" /\ Stream(c) # <<>> =>
            LET s == Stream(c)
            IN  /\ last[c] = Nothing => s[1].part = 1
                /\ \A i \in 1..(Len(s) - 1) : s[i + 1] = PieceAfter(s[i])
                /\ PieceAfter(s[Len(s)]) = Due(c)

\* Every client that stays gets the feed, on either port, although it waits
\* for a lock that is held for the slowest of the others, and others close
\* in the middle of a frame (atc_feed.py 149-171).
EveryClientServed ==
    \A c \in Clients : conn[c] = "backlog" ~> (last[c] # Nothing \/ side[c] # "open")
=============================================================================
