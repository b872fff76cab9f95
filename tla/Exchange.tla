------------------------------ MODULE Exchange ------------------------------
(***************************************************************************)
(* What a client may observe of the proxy: it is accepted, and gets one    *)
(* response - a status line, and after the status 200, chunks up to a last *)
(* one - or a part of it, until the proxy closes the connection.  Nothing  *)
(* is taken back, nothing follows the last chunk, and nothing happens on a *)
(* closed connection.  Connection implements this specification.           *)
(***************************************************************************)
EXTENDS Naturals, Sequences

CONSTANTS Clients, StatusLines, OK, Chunks, LastChunk

VARIABLES phase,   \* "new", "open" or "closed", for each client
          reply    \* what each client was sent

exchangeVars == <<phase, reply>>

ExchangeInit ==
  /\ phase = [c \in Clients |-> "new"]
  /\ reply = [c \in Clients |-> <<>>]

Connect(c) ==
  /\ phase[c] = "new"
  /\ phase' = [phase EXCEPT ![c] = "open"]
  /\ UNCHANGED reply

Send(c, item) ==
  /\ phase[c] = "open"
  /\ reply' = [reply EXCEPT ![c] = Append(@, item)]
  /\ UNCHANGED phase

SendStatus(c) ==
  /\ reply[c] = <<>>
  /\ \E line \in StatusLines : Send(c, line)

SendBody(c) ==
  /\ reply[c] # <<>> /\ reply[c][1] = OK
  /\ reply[c][Len(reply[c])] # LastChunk
  /\ \E item \in Chunks \cup {LastChunk} : Send(c, item)

(* Stopping the proxy closes several connections at once. *)
Close ==
  /\ \E S \in SUBSET Clients :
       /\ \A c \in S : phase[c] = "open"
       /\ phase' = [c \in Clients |-> IF c \in S THEN "closed" ELSE phase[c]]
  /\ UNCHANGED reply

ExchangeNext ==
  \/ Close
  \/ \E c \in Clients : Connect(c) \/ SendStatus(c) \/ SendBody(c)

ExchangeSpec == ExchangeInit /\ [][ExchangeNext]_exchangeVars
=============================================================================
