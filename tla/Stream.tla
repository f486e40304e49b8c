-------------------------------- MODULE Stream --------------------------------
(***************************************************************************)
(* One direction of a TCP connection between two lk.Sockets                *)
(* (lk/lib/lk/Socket.lua over lk/src/more/socket.cpp): a thread sends a    *)
(* text and a thread receives it in lines and counted pieces, the way      *)
(* lk.WebServer reads a request. Sockets do not block; a thread waits for  *)
(* its descriptor instead. Sender and receiver are different processes.    *)
(*                                                                         *)
(* A byte is its position in the text. What the receiver has buffered is   *)
(* always an interval, from .. taken.                                      *)
(*                                                                         *)
(* Init, Next and the like carry the name of the module: NetworkProofs     *)
(* extends Discovery as well.                                              *)
(***************************************************************************)
EXTENDS Integers, Sequences, FiniteSetsExt

CONSTANTS
  Pieces,       \* what is read, in order: [line : BOOLEAN, size : Nat]
  Capacity,     \* what the kernel holds between the two sockets
  Closing       \* whether the sender may close when everything is sent

ASSUME StreamAssumption ==
  /\ Pieces \in Seq([line : BOOLEAN, size : Nat \ {0}])
  /\ Capacity \in Nat \ {0}
  /\ Closing \in BOOLEAN

VARIABLES
  sent,         \* bytes the kernel has accepted
  arrived,      \* bytes that have reached the host of the receiver
  fin,          \* "no", "sent", "arrived": the end of the stream
  taken,        \* bytes the receiver has read
  from,         \* the first of them that is in its buffer
  got,          \* the pieces recv has returned, as intervals
  open,         \* the receiver has not found the connection closed
  dropped       \* history: bytes were thrown away

streamVars == <<sent, arrived, fin, taken, from, got, open, dropped>>

First[k \in 1 .. Len(Pieces) + 1] ==
  IF k = 1 THEN 1 ELSE First[k - 1] + Pieces[k - 1].size
Size == First[Len(Pieces) + 1] - 1
Expected == [k \in 1 .. Len(Pieces) |-> <<First[k], First[k + 1] - 1>>]

\* The newlines: a line ends with one, a counted piece has none.
Newlines == {First[k + 1] - 1 : k \in {k \in 1 .. Len(Pieces) : Pieces[k].line}}

StreamInit ==
  /\ sent = 0 /\ arrived = 0 /\ taken = 0
  /\ from = 1 /\ got = <<>>
  /\ fin = "no" /\ open = TRUE /\ dropped = FALSE

-----------------------------------------------------------------------------
(* The sender and the network *)

Room == Capacity - (sent - taken)

\* send: the kernel takes a part of the rest; without room the thread waits.
Send ==
  /\ fin = "no"
  /\ \E k \in 1 .. Min({Size - sent, Room}) : sent' = sent + k
  /\ UNCHANGED <<arrived, fin, taken, from, got, open, dropped>>

Close ==
  /\ Closing /\ sent = Size /\ fin = "no"
  /\ fin' = "sent"
  /\ UNCHANGED <<sent, arrived, taken, from, got, open, dropped>>

Arrive ==
  /\ \/ /\ \E n \in arrived + 1 .. sent : arrived' = n
        /\ UNCHANGED fin
     \/ /\ fin = "sent"
        /\ arrived' = sent
        /\ fin' = "arrived"
  /\ UNCHANGED <<sent, taken, from, got, open, dropped>>

-----------------------------------------------------------------------------
(* The receiver *)

Reading == open /\ Len(got) < Len(Pieces)
Piece == Pieces[Len(got) + 1]
Ends == Newlines \cap (from .. taken)

\* mutant: a counted piece is returned with what there is
EnoughIfAny == IF Piece.line THEN Ends # {} ELSE taken >= from

\* The buffer holds what is asked for.
Enough == IF Piece.line THEN Ends # {} ELSE taken - from + 1 >= Piece.size

\* mutant: the newline stays in the buffer
RestWithNewline == IF Piece.line THEN Min(Ends) ELSE from + Piece.size

\* Where the rest of the buffer starts.
Rest == IF Piece.line THEN Min(Ends) + 1 ELSE from + Piece.size

\* mutant: the buffer is looked at after a read only
ReturnAfterRead ==
  /\ Reading /\ Enough /\ taken < arrived
  /\ got' = Append(got, <<from, Rest - 1>>)
  /\ from' = Rest
  /\ UNCHANGED <<sent, arrived, fin, taken, open, dropped>>

\* recv and recvLine return.
Return ==
  /\ Reading /\ Enough
  /\ got' = Append(got, <<from, Rest - 1>>)
  /\ from' = Rest
  /\ UNCHANGED <<sent, arrived, fin, taken, open, dropped>>

\* recv('*a') takes everything that has arrived. A line is put together; the
\* buffer of a counted piece is replaced.
Receive ==
  /\ Reading /\ ~Enough /\ fin # "arrived" /\ arrived > taken
  /\ taken' = arrived
  /\ from' = IF Piece.line THEN from ELSE taken + 1
  /\ dropped' = (dropped \/ from' # from)
  /\ UNCHANGED <<sent, arrived, fin, got, open>>

\* At the end of the stream recv('*a') returns nothing, whatever it has read
\* before: recvLine aborts its thread, recv fails.
ReceiveEnd ==
  /\ Reading /\ ~Enough /\ fin = "arrived"
  /\ taken' = arrived
  /\ dropped' = (dropped \/ arrived > taken)
  /\ open' = FALSE
  /\ UNCHANGED <<sent, arrived, fin, from, got>>

StreamNext == Send \/ Close \/ Arrive \/ Return \/ Receive \/ ReceiveEnd

StreamSpec == StreamInit /\ [][StreamNext]_streamVars

\* Threads that may run do, and the network delivers.
StreamFairSpec ==
  StreamSpec /\ WF_streamVars(Send) /\ WF_streamVars(Arrive) /\ WF_streamVars(Return)
       /\ WF_streamVars(Receive) /\ WF_streamVars(ReceiveEnd)

-----------------------------------------------------------------------------
(* Properties *)

\* Every byte is in one place, and the receiver returns only what it has read.
StreamTypeOK ==
  /\ taken \in 0 .. arrived /\ arrived \in 0 .. sent /\ sent \in 0 .. Size
  /\ sent - taken <= Capacity
  /\ from \in 1 .. taken + 1
  /\ fin \in {"no", "sent", "arrived"} /\ open \in BOOLEAN /\ dropped \in BOOLEAN
  /\ Len(got) <= Len(Pieces) /\ got \in Seq((1 .. Size) \X (1 .. Size))

\* However the text is cut on its way, recv returns the pieces that were sent
\* ("recvBytes" and "send" in Socket_test.lua), unless bytes have been thrown
\* away: a counted piece that comes in more than one read (Socket.lua:66), or
\* bytes that come together with the end of the stream (socket.cpp:524).
PiecesExact == ~dropped => got = SubSeq(Expected, 1, Len(got))

\* And it returns all of them: no piece is left in the buffer, and sender and
\* receiver do not wait for each other.
AllReceived == <>(Len(got) = Len(Pieces) \/ dropped)
=============================================================================
