-------------------------- MODULE TcpServerProofs --------------------------
(***************************************************************************)
(* The line buffer of TcpServer, for every number of clients, every size   *)
(* of the buffer and every set of lines: it never overflows, it holds what *)
(* was read and not yet consumed and no other client's bytes, and the      *)
(* commands executed are the lines that have left it.                      *)
(***************************************************************************)
EXTENDS TcpServer, SequenceTheorems, TLAPS

(* Symbols on the way from the clients C.  The newline is a STRING, which  *)
(* the provers do not know.                                                *)
Symbol == STRING \cup {"NL"}
Bytes(C) == [word : Symbol, from : C]

(* Whose bytes the buffer may hold.                                        *)
Owners == ClientIds \cap ({client_fd} \cup quit)

ConnInv ==
    /\ conn \in [ClientIds -> [at    : {"away", "waiting", "served", "gone"},
                               inbox : Seq(Bytes(ClientIds)),
                               end   : {"none", "fin", "reset"}]]
    /\ \A c \in ClientIds : conn[c].inbox \in Seq(Bytes({c}))

BufInv == rx_buf \in Seq(Bytes(Owners))

(* The buffer is what is left of all that was read, behind the newline     *)
(* that ended the latest complete line.                                    *)
BufferIsTail ==
    \E done \in Seq(Bytes(ClientIds)) :
        /\ stream = done \o rx_buf
        /\ done = <<>> \/ done[Len(done)].word = "NL"

TcpInv == TypeOK /\ ConnInv /\ BufInv /\ BufferIsTail
-----------------------------------------------------------------------------
LEMMA NoneIsNobody == None \notin ClientIds
BY ClientsAssumption DEF None, ClientIds

(* More owners, more bytes.                                                *)
LEMMA Wider ==
    ASSUME NEW C, NEW D, C \subseteq D, NEW s \in Seq(Bytes(C))
    PROVE  s \in Seq(Bytes(D))
<1>1. Bytes(C) \subseteq Bytes(D)
  BY DEF Bytes
<1> QED BY <1>1, SeqMonotonic

(* A line on its way is the sender's.                                      *)
LEMMA ByOwn ==
    ASSUME NEW c \in ClientIds, NEW l \in Seq(Symbol)
    PROVE  By(c, l) \in Seq(Bytes({c}))
<1>1. Len(l) \in Nat /\ \A i \in 1 .. Len(l) : l[i] \in Symbol
  OBVIOUS
<1>2. \A i \in 1 .. Len(l) : [word |-> l[i], from |-> c] \in Bytes({c})
  BY <1>1 DEF Bytes
<1>3. By(c, l) \in [1 .. Len(l) -> Bytes({c})]
  BY <1>2 DEF By
<1> HIDE DEF By
<1> QED BY <1>1, <1>3, SeqDef

(* A prefix and the rest.                                                  *)
LEMMA Cut ==
    ASSUME NEW S, NEW s \in Seq(S), NEW n \in 0 .. Len(s)
    PROVE  /\ SubSeq(s, 1, n) \in Seq(S) /\ Len(SubSeq(s, 1, n)) = n
           /\ SubSeq(s, n + 1, Len(s)) \in Seq(S)
           /\ Len(SubSeq(s, n + 1, Len(s))) = Len(s) - n
           /\ SubSeq(s, 1, n) \o SubSeq(s, n + 1, Len(s)) = s
           /\ n > 0 => SubSeq(s, 1, n)[n] = s[n]
<1>1. Len(s) \in Nat /\ n \in Nat /\ n <= Len(s)
  OBVIOUS
<1>2. \A i \in 1 .. Len(s) : s[i] \in S
  OBVIOUS
<1>3. /\ SubSeq(s, 1, n) \in Seq(S) /\ Len(SubSeq(s, 1, n)) = n
      /\ \A i \in 1 .. n : SubSeq(s, 1, n)[i] = s[i]
  BY <1>1, <1>2, SubSeqProperties
<1>4. /\ SubSeq(s, n + 1, Len(s)) \in Seq(S)
      /\ Len(SubSeq(s, n + 1, Len(s))) = Len(s) - n
  BY <1>1, <1>2, SubSeqProperties
<1>5. SubSeq(s, 1, n) \o SubSeq(s, n + 1, Len(s)) = SubSeq(s, 1, Len(s))
  <2>1. 1 \in 1 .. Len(s) + 1 /\ n \in 1 - 1 .. Len(s) /\ Len(s) \in n .. Len(s)
    BY <1>1
  <2> QED BY <2>1, ConcatAdjacentSubSeq, Zenon
<1>6. SubSeq(s, 1, Len(s)) = s
  BY SubSeqFull
<1>7. n > 0 => n \in 1 .. n
  BY <1>1
<1> QED BY <1>3, <1>4, <1>5, <1>6, <1>7, Zenon
-----------------------------------------------------------------------------
(* A ground station changes its own connection, and nothing of the server. *)
LEMMA ClientKeeps ==
    ASSUME TcpInv, NEW c \in ClientIds,
           Connect(c) \/ HangUp(c) \/ \E l \in Lines : Send(c, l)
    PROVE  TcpInv'
<1>1. UNCHANGED <<client_fd, rx_buf, pc, stream, quit>>
  BY DEF Connect, HangUp, Send, server, history
<1>2. sent' \in 0 .. MaxLines
  <2>1. sent' = sent \/ (sent < MaxLines /\ sent' = sent + 1)
    BY DEF Connect, HangUp, Send
  <2> QED BY <2>1, MaxLinesAssumption DEF TcpInv, TypeOK
<1>3. BufInv' /\ BufferIsTail'
  BY <1>1 DEF TcpInv, BufInv, Owners, BufferIsTail
<1>4. ConnInv'
  <2>1. CASE Connect(c)
    BY <2>1 DEF Connect, TcpInv, ConnInv
  <2>2. CASE HangUp(c)
    <3>1. \A C : <<>> \in Seq(Bytes(C))
      OBVIOUS
    <3>2. CASE conn' = [conn EXCEPT ![c].end = "fin"]
      BY <3>2 DEF TcpInv, ConnInv
    <3>3. CASE conn' = [conn EXCEPT ![c].end = "reset", ![c].inbox = <<>>]
      BY <3>1, <3>3 DEF TcpInv, ConnInv
    <3> QED BY <2>2, <3>2, <3>3 DEF HangUp
  <2>3. ASSUME NEW l \in Lines, Send(c, l) PROVE ConnInv'
    <3>1. l \in Seq(Symbol) /\ Append(l, "NL") \in Seq(Symbol)
      <4>1. STRING \subseteq Symbol /\ "NL" \in Symbol
        BY DEF Symbol
      <4>2. l \in Seq(Symbol)
        BY <4>1, LinesAssumption, SeqMonotonic
      <4> QED BY <4>1, <4>2, AppendProperties
    <3>2. By(c, l) \in Seq(Bytes({c})) /\ By(c, Append(l, "NL")) \in Seq(Bytes({c}))
      BY <3>1, ByOwn
    <3>3. conn[c].inbox \in Seq(Bytes({c}))
      BY DEF TcpInv, ConnInv
    <3>4. PICK x \in Seq(Bytes({c})) :
             \/ conn' = [conn EXCEPT ![c].inbox = @ \o x]
             \/ conn' = [conn EXCEPT ![c].inbox = @ \o x, ![c].end = "fin"]
      BY <2>3, <3>2 DEF Send
    <3> DEFINE y == conn[c].inbox \o x
    <3>5. y \in Seq(Bytes({c}))
      BY <3>3, ConcatProperties
    <3>6. y \in Seq(Bytes(ClientIds))
      BY <3>5, Wider
    <3>7. \/ conn' = [conn EXCEPT ![c].inbox = y]
          \/ conn' = [conn EXCEPT ![c].inbox = y, ![c].end = "fin"]
      BY <3>4
    <3> HIDE DEF y
    <3> QED BY <3>5, <3>6, <3>7 DEF TcpInv, ConnInv
  <2> QED BY <2>1, <2>2, <2>3
<1>5. TypeOK'
  BY <1>1, <1>2, <1>4 DEF TcpInv, TypeOK, ConnInv
<1> QED BY <1>3, <1>4, <1>5 DEF TcpInv

LEMMA AcceptKeeps == ASSUME TcpInv, NEW c \in ClientIds, tcp_accept(c) PROVE TcpInv'
<1>1. /\ client_fd = None /\ client_fd' = c /\ conn' = [conn EXCEPT ![c].at = "served"]
      /\ UNCHANGED <<rx_buf, pc, sent, stream, quit>>
  BY DEF tcp_accept, history
<1>2. ConnInv'
  BY <1>1 DEF TcpInv, ConnInv
<1>3. Owners \subseteq Owners'
  BY <1>1, NoneIsNobody DEF Owners
<1>4. BufInv'
  BY <1>1, <1>3, Wider DEF TcpInv, BufInv
<1>5. TypeOK' /\ BufferIsTail'
  BY <1>1, <1>2 DEF TcpInv, TypeOK, ConnInv, BufferIsTail
<1> QED BY <1>2, <1>4, <1>5 DEF TcpInv

(* Closing a client empties the buffer.                                    *)
LEMMA CloseKeeps == ASSUME TcpInv, Tick, close_client PROVE TcpInv'
<1>1. /\ client_fd \in ClientIds /\ client_fd' = None
      /\ conn' = [conn EXCEPT ![client_fd].at = "gone", ![client_fd].inbox = <<>>]
      /\ rx_buf' = <<>> /\ stream' = <<>> /\ UNCHANGED <<pc, sent, quit>>
  BY DEF Tick, close_client, TcpInv, TypeOK
<1>2. \A C : <<>> \in Seq(Bytes(C))
  OBVIOUS
<1>3. ConnInv'
  BY <1>1, <1>2 DEF TcpInv, ConnInv
<1>4. BufInv' /\ BufferIsTail'
  <2>1. <<>> = <<>> \o <<>>
    OBVIOUS
  <2> QED BY <1>1, <1>2, <2>1 DEF BufInv, BufferIsTail
<1>5. Len(rx_buf') <= Cap
  BY <1>1, CapAssumption
<1>6. TypeOK'
  BY <1>1, <1>3, <1>5 DEF TcpInv, TypeOK, ConnInv
<1> QED BY <1>3, <1>4, <1>6 DEF TcpInv

(* A read asks for no more than there is room for, and what it gets is the *)
(* client's.                                                               *)
LEMMA ReadKeeps == ASSUME TcpInv, NEW n \in 1 .. Cap, tcp_read(n) PROVE TcpInv'
<1> DEFINE d == client_fd
           in == conn[d].inbox
           got == SubSeq(in, 1, n)
           rest == SubSeq(in, n + 1, Len(in))
<1>1. /\ d \in ClientIds /\ n <= Cap - Len(rx_buf) /\ n <= Len(in)
      /\ rx_buf' = rx_buf \o got /\ stream' = stream \o got
      /\ conn' = [conn EXCEPT ![d].inbox = rest]
      /\ pc' = "lines" /\ UNCHANGED <<client_fd, sent, quit>>
  BY DEF tcp_read, Tick, Room, TcpInv, TypeOK
<1>2. in \in Seq(Bytes({d})) /\ rx_buf \in Seq(Bytes(Owners)) /\ n \in Nat /\ Cap \in Nat
  BY <1>1, CapAssumption DEF TcpInv, ConnInv, BufInv
<1> HIDE DEF in
<1>3. n \in 0 .. Len(in)
  BY <1>1, <1>2
<1>4. got \in Seq(Bytes({d})) /\ Len(got) = n /\ rest \in Seq(Bytes({d}))
  BY <1>2, <1>3, Cut
<1> HIDE DEF got, rest
<1>5. {d} \subseteq Owners /\ Owners \subseteq ClientIds /\ Owners' = Owners
  BY <1>1 DEF Owners
<1>6. got \in Seq(Bytes(Owners)) /\ rest \in Seq(Bytes(ClientIds))
  BY <1>4, <1>5, Wider
<1>7. ConnInv'
  BY <1>1, <1>4, <1>6 DEF TcpInv, ConnInv
<1>8. rx_buf' \in Seq(Bytes(Owners)) /\ Len(rx_buf') = Len(rx_buf) + n
  BY <1>1, <1>2, <1>4, <1>6, ConcatProperties
<1>9. Len(rx_buf') <= Cap
  BY <1>1, <1>2, <1>8
<1>10. TypeOK' /\ BufInv'
  BY <1>1, <1>5, <1>7, <1>8, <1>9 DEF TcpInv, TypeOK, ConnInv, BufInv
<1>11. BufferIsTail'
  <2>1. PICK done \in Seq(Bytes(ClientIds)) :
           /\ stream = done \o rx_buf
           /\ done = <<>> \/ done[Len(done)].word = "NL"
    BY DEF TcpInv, BufferIsTail
  <2>2. rx_buf \in Seq(Bytes(ClientIds)) /\ got \in Seq(Bytes(ClientIds))
    BY <1>2, <1>5, <1>6, Wider
  <2>3. (done \o rx_buf) \o got = done \o (rx_buf \o got)
    BY <2>2, ConcatAssociative
  <2> QED BY <1>1, <2>1, <2>3 DEF BufferIsTail
<1> QED BY <1>7, <1>10, <1>11 DEF TcpInv

(* A complete line leaves the buffer; QUIT turns its sender from the       *)
(* client into one that has quit.                                          *)
LEMMA LineKeeps == ASSUME TcpInv, NEW i \in 1 .. Len(rx_buf), tcp_line(i) PROVE TcpInv'
<1> DEFINE rest == SubSeq(rx_buf, i + 1, Len(rx_buf))
           head == SubSeq(rx_buf, 1, i)
<1>1. /\ rx_buf[i].word = "NL" /\ rx_buf' = rest /\ UNCHANGED <<pc, sent, stream>>
      /\ \/ UNCHANGED <<client_fd, conn, quit>>
         \/ /\ client_fd' = None /\ quit' = quit \cup ({client_fd} \ {None})
            /\ conn' = [c \in ClientIds |-> IF c = client_fd
                            THEN [conn[c] EXCEPT !.at = "gone", !.inbox = <<>>]
                            ELSE conn[c]]
  BY DEF tcp_line
<1>2. rx_buf \in Seq(Bytes(Owners)) /\ i \in 0 .. Len(rx_buf) /\ i > 0
  BY DEF TcpInv, BufInv
<1>3. /\ head \in Seq(Bytes(Owners)) /\ Len(head) = i /\ head[i] = rx_buf[i]
      /\ rest \in Seq(Bytes(Owners)) /\ Len(rest) = Len(rx_buf) - i
      /\ head \o rest = rx_buf
  BY <1>2, Cut
<1> HIDE DEF head, rest
<1>4. ConnInv'
  <2>1. CASE UNCHANGED conn
    BY <2>1 DEF TcpInv, ConnInv
  <2>2. CASE conn' = [c \in ClientIds |-> IF c = client_fd
                         THEN [conn[c] EXCEPT !.at = "gone", !.inbox = <<>>]
                         ELSE conn[c]]
    <3>1. \A C : <<>> \in Seq(Bytes(C))
      OBVIOUS
    <3> QED BY <2>2, <3>1 DEF TcpInv, ConnInv
  <2> QED BY <1>1, <2>1, <2>2
<1>5. Owners \subseteq Owners' /\ quit' \subseteq ClientIds /\ client_fd' \in ClientIds \cup {None}
  BY <1>1, NoneIsNobody DEF Owners, TcpInv, TypeOK
<1>6. BufInv'
  BY <1>1, <1>3, <1>5, Wider DEF BufInv
<1>7. Len(rx_buf') <= Cap
  <2>1. Len(rx_buf) \in Nat /\ Len(rx_buf) <= Cap /\ Len(rx_buf') = Len(rx_buf) - i
    <3>1. Len(rx_buf) \in Nat
      BY <1>2, LenProperties
    <3> QED BY <1>1, <1>3, <3>1 DEF TcpInv, TypeOK
  <2> QED BY <1>2, <2>1, CapAssumption
<1>8. TypeOK'
  BY <1>1, <1>4, <1>5, <1>7 DEF TcpInv, TypeOK, ConnInv
<1>9. BufferIsTail'
  <2>1. PICK done \in Seq(Bytes(ClientIds)) : stream = done \o rx_buf
    BY DEF TcpInv, BufferIsTail
  <2>2. Owners \subseteq ClientIds
    BY DEF Owners
  <2>3. head \in Seq(Bytes(ClientIds)) /\ rest \in Seq(Bytes(ClientIds))
    BY <1>3, <2>2, Wider
  <2> DEFINE more == done \o head
  <2>4. stream' = more \o rest
    <3>1. more \o rest = done \o (head \o rest)
      BY <2>3, ConcatAssociative
    <3> HIDE DEF more
    <3>2. stream = done \o (head \o rest)
      BY <1>3, <2>1
    <3> QED BY <1>1, <3>1, <3>2
  <2>5. /\ more \in Seq(Bytes(ClientIds)) /\ Len(more) = Len(done) + i
        /\ more[Len(done) + i] = head[i]
    <3>1. /\ more \in Seq(Bytes(ClientIds)) /\ Len(more) = Len(done) + Len(head)
          /\ \A j \in 1 .. Len(done) + Len(head) :
                more[j] = IF j <= Len(done) THEN done[j] ELSE head[j - Len(done)]
      BY <2>3, ConcatProperties
    <3> HIDE DEF more
    <3> DEFINE j == Len(done) + i
    <3>2. j \in 1 .. Len(done) + Len(head) /\ ~(j <= Len(done)) /\ j - Len(done) = i
      BY <1>2, <1>3
    <3> HIDE DEF j
    <3>3. more[j] = head[j - Len(done)]
      BY <3>1, <3>2
    <3> QED BY <1>3, <3>1, <3>2, <3>3 DEF j
  <2> HIDE DEF more
  <2> QED BY <1>1, <1>3, <2>4, <2>5 DEF BufferIsTail
<1> QED BY <1>4, <1>6, <1>8, <1>9 DEF TcpInv

LEMMA ShiftKeeps == ASSUME TcpInv, tcp_shift \/ UNCHANGED vars PROVE TcpInv'
<1>1. UNCHANGED <<client_fd, rx_buf, conn, sent, stream, quit>> /\ pc' \in {pc, "tick"}
  BY DEF tcp_shift, Shift, vars, server, history
<1> QED BY <1>1 DEF TcpInv, TypeOK, ConnInv, BufInv, Owners, BufferIsTail

LEMMA TcpStep == TcpInv /\ [Next]_vars => TcpInv'
<1> SUFFICES ASSUME TcpInv, [Next]_vars PROVE TcpInv'
  OBVIOUS
<1> QED BY ClientKeeps, AcceptKeeps, CloseKeeps, ReadKeeps, LineKeeps, ShiftKeeps
        DEF Next, tcp_server_tick, tcp_eof, tcp_error

LEMMA TcpInit == Init => TcpInv
<1> SUFFICES ASSUME Init PROVE TcpInv
  OBVIOUS
<1>1. \A C : <<>> \in Seq(Bytes(C))
  OBVIOUS
<1>2. ConnInv
  BY <1>1 DEF Init, ConnInv
<1>3. BufInv /\ BufferIsTail
  <2>1. <<>> = <<>> \o <<>>
    OBVIOUS
  <2> QED BY <1>1, <2>1 DEF Init, BufInv, BufferIsTail
<1>4. 0 \in 0 .. MaxLines /\ Len(<<>>) <= Cap
  BY MaxLinesAssumption, CapAssumption
<1>5. TypeOK
  BY <1>2, <1>4 DEF Init, TypeOK, ConnInv
<1> QED BY <1>2, <1>3, <1>5 DEF TcpInv

(* The invariant of the command server's line buffer.                      *)
THEOREM TcpInvariant == Spec => []TcpInv
BY TcpInit, TcpStep, PTL DEF Spec

(* No client makes tcp_server_tick write behind rx_buf, and every variable *)
(* keeps its type.                                                         *)
THEOREM TcpTypeCorrect == Spec => []TypeOK
BY TcpInvariant, PTL DEF TcpInv

(* tcp_server_tick loses and repeats nothing of what it reads: the buffer  *)
(* is the tail of it, and what has left the buffer ends with a newline.    *)
THEOREM TcpKeepsTheRest == Spec => []BufferIsTail
BY TcpInvariant, PTL DEF TcpInv

(* What a client leaves behind in rx_buf is not taken for the beginning of *)
(* the next client's line, unless it had sent QUIT.                        *)
THEOREM TcpOwnBytesOnly == Spec => []OwnBytesOnly
<1>1. TcpInv => OwnBytesOnly
  <2> SUFFICES ASSUME TcpInv, NEW i \in 1 .. Len(rx_buf)
               PROVE  rx_buf[i].from \in {client_fd} \cup quit
    BY DEF OwnBytesOnly
  <2>1. rx_buf \in Seq(Bytes(Owners))
    BY DEF TcpInv, BufInv
  <2>2. rx_buf[i] \in Bytes(Owners)
    BY <2>1, ElementOfSeq
  <2> QED BY <2>2 DEF Bytes, Owners
<1> QED BY <1>1, TcpInvariant, PTL
-----------------------------------------------------------------------------
(* Which commands are executed.  A line is cut out of the buffer whole, so *)
(* what has left the buffer grows by one line at a time.                   *)

(* Outside the loop no complete line is in the buffer.                     *)
LineDone == pc = "tick" => \A i \in 1 .. Len(rx_buf) : rx_buf[i].word # "NL"

(* A complete line is the client's, or that of one that has quit.          *)
NewlinesOwn ==
    \A i \in 1 .. Len(rx_buf) : rx_buf[i].word = "NL" =>
        rx_buf[i].from = client_fd \/ (client_fd = None /\ rx_buf[i].from \in quit)

ExecutedSeq == \E S : executed \in Seq(S)

LinesInv == TcpInv /\ LineDone /\ NewlinesOwn /\ ExecutedSeq /\ Reassembly

(* A lookup in a whole line does not leave it.                             *)
LEMMA WordsFromWhole ==
    ASSUME NEW ln, Len(ln.words) \in Nat, ln.cr \/ Len(ln.words) >= 3,
           NEW rest, NEW k \in {1, 2}
    PROVE  WordsFrom(ln, rest, k) = WordsFrom(ln, <<>>, k)
<1>1. CASE Len(ln.words) > k
  BY <1>1, Zenon DEF WordsFrom
<1>2. CASE ~(Len(ln.words) > k)
  <2>1. ln.cr
    BY <1>2
  <2> QED BY <1>2, <2>1, Zenon DEF WordsFrom
<1> QED BY <1>1, <1>2

(* A whole line means the same whatever follows it in the buffer.          *)
LEMMA WholeMeans ==
    ASSUME NEW ln, Len(ln.words) \in Nat, Whole(ln), NEW rest
    PROVE  handle_command(ln, rest) = handle_command(ln, <<>>)
<1>1. CASE ln.cr \/ Len(ln.words) >= 3
  <2>1. /\ WordsFrom(ln, rest, 1) = WordsFrom(ln, <<>>, 1)
        /\ WordsFrom(ln, rest, 2) = WordsFrom(ln, <<>>, 2)
    BY <1>1, WordsFromWhole
  <2> QED BY <2>1 DEF handle_command
<1>2. CASE Head(ln.words) # "FAULT"
  BY <1>2 DEF handle_command
<1> QED BY <1>1, <1>2 DEF Whole

(* Slices of a string that is put together from two.                       *)
LEMMA SliceLeft ==
    ASSUME NEW S, NEW s \in Seq(S), NEW w \in Seq(S),
           NEW a \in 1 .. Len(s), NEW b \in 0 .. Len(s)
    PROVE  SubSeq(s \o w, a, b) = SubSeq(s, a, b)
<1>1. CASE b = 0
  <2>1. a \in Int /\ b \in Int /\ b < a
    BY <1>1
  <2> QED BY <2>1, SubSeqEmpty
<1>2. CASE b # 0
  <2>1. b \in 1 .. Len(s)
    BY <1>2
  <2> QED BY <2>1, SubSeqOfConcat1
<1> QED BY <1>1, <1>2

LEMMA SliceRight ==
    ASSUME NEW S, NEW s \in Seq(S), NEW w \in Seq(S), NEW i \in 1 .. Len(w)
    PROVE  SubSeq(s \o w, Len(s) + 1, Len(s) + i - 1) = SubSeq(w, 1, i - 1)
<1>1. Len(s) \in Nat /\ Len(w) \in Nat
  OBVIOUS
<1>2. CASE i = 1
  <2>1. /\ Len(s) + 1 \in Int /\ Len(s) + i - 1 \in Int /\ Len(s) + i - 1 < Len(s) + 1
        /\ 1 \in Int /\ i - 1 \in Int /\ i - 1 < 1
    BY <1>1, <1>2
  <2> QED BY <2>1, SubSeqEmpty
<1>3. CASE i # 1
  <2> DEFINE m == Len(s) + 1  n == Len(s) + i - 1
  <2>1. /\ m \in Len(s) + 1 .. Len(s) + Len(w) /\ n \in Len(s) + 1 .. Len(s) + Len(w)
        /\ m - Len(s) = 1 /\ n - Len(s) = i - 1
    BY <1>1, <1>3
  <2> HIDE DEF m, n
  <2>2. SubSeq(s \o w, m, n) = SubSeq(w, m - Len(s), n - Len(s))
    BY <2>1, SubSeqOfConcat2
  <2> QED BY <2>1, <2>2 DEF m, n
<1> QED BY <1>2, <1>3

LEMMA Joined ==
    ASSUME NEW S, NEW s \in Seq(S), NEW w \in Seq(S)
    PROVE  /\ s \o w \in Seq(S) /\ Len(s \o w) = Len(s) + Len(w)
           /\ \A j \in 1 .. Len(s) : (s \o w)[j] = s[j]
           /\ \A j \in 1 .. Len(w) : (s \o w)[Len(s) + j] = w[j]
<1>1. /\ s \o w \in Seq(S) /\ Len(s \o w) = Len(s) + Len(w)
      /\ \A j \in 1 .. Len(s) + Len(w) :
            (s \o w)[j] = IF j <= Len(s) THEN s[j] ELSE w[j - Len(s)]
  BY ConcatProperties
<1> DEFINE t == s \o w
<1>2. /\ t \in Seq(S) /\ Len(t) = Len(s) + Len(w)
      /\ \A j \in 1 .. Len(s) + Len(w) : t[j] = IF j <= Len(s) THEN s[j] ELSE w[j - Len(s)]
  BY <1>1
<1> HIDE DEF t
<1>3. Len(s) \in Nat /\ Len(w) \in Nat
  OBVIOUS
<1>4. \A j \in 1 .. Len(s) : t[j] = s[j]
  BY <1>2, <1>3
<1>5. ASSUME NEW j \in 1 .. Len(w) PROVE t[Len(s) + j] = w[j]
  <2> DEFINE n == Len(s) + j
  <2>1. n \in 1 .. Len(s) + Len(w) /\ ~(n <= Len(s)) /\ n - Len(s) = j
    BY <1>3
  <2> HIDE DEF n
  <2>2. t[n] = w[n - Len(s)]
    BY <1>2, <2>1
  <2> QED BY <2>1, <2>2 DEF n
<1> QED BY <1>2, <1>4, <1>5 DEF t

(* Behind complete lines, one more line: the lines are those and this one. *)
OneMoreLine(s, t, m, i) ==
    /\ \A j \in 1 .. m : t[j] = s[j]
    /\ m = 0 \/ t[m].word = "NL"
    /\ \A j \in m + 1 .. m + i - 1 : t[j].word # "NL"
    /\ t[m + i].word = "NL"

TheLinesAnd(s, t, m, i) ==
    \A a, e \in 1 .. m + i :
        IsLine(t, <<a, e>>) <=> \/ a \in 1 .. m /\ e \in 1 .. m /\ IsLine(s, <<a, e>>)
                                \/ a = m + 1 /\ e = m + i

LEMMA LinesOfMore ==
    ASSUME NEW s, NEW t, NEW m \in Nat, NEW i \in Nat \ {0}, OneMoreLine(s, t, m, i)
    PROVE  TheLinesAnd(s, t, m, i)
<1> SUFFICES ASSUME NEW a \in 1 .. m + i, NEW e \in 1 .. m + i
             PROVE  IsLine(t, <<a, e>>) <=>
                        \/ a \in 1 .. m /\ e \in 1 .. m /\ IsLine(s, <<a, e>>)
                        \/ a = m + 1 /\ e = m + i
  BY DEF TheLinesAnd
<1> USE DEF OneMoreLine
<1>1. CASE e <= m
  <2>1. a <= e => a \in 1 .. m /\ \A j \in a .. e - 1 : j \in 1 .. m
    BY <1>1
  <2>2. e \in 1 .. m /\ t[e] = s[e]
    BY <1>1
  <2>3. ~(a = m + 1 /\ e = m + i)
    BY <1>1
  <2>4. a <= e /\ a # 1 => a - 1 \in 1 .. m
    BY <1>1
  <2> QED BY <2>1, <2>2, <2>3, <2>4 DEF IsLine
<1>2. CASE e > m
  <2>1. ASSUME IsLine(t, <<a, e>>) PROVE a = m + 1 /\ e = m + i
    <3>1. /\ a <= e /\ t[e].word = "NL" /\ (a = 1 \/ t[a - 1].word = "NL")
          /\ \A j \in a .. e - 1 : t[j].word # "NL"
      BY <2>1 DEF IsLine
    <3>2. e = m + i
      BY <1>2, <3>1
    <3>3. a > m
      <4>1. a <= m => m # 0 /\ m \in a .. e - 1
        BY <1>2
      <4> QED BY <3>1, <4>1
    <3>4. ~(a > m + 1)
      <4>1. a > m + 1 => a # 1 /\ a - 1 \in m + 1 .. m + i - 1
        BY <3>1, <3>2
      <4> QED BY <3>1, <4>1
    <3> QED BY <3>2, <3>3, <3>4
  <2>2. ASSUME a = m + 1, e = m + i PROVE IsLine(t, <<a, e>>)
    <3>1. a <= e /\ (a = 1 \/ (m # 0 /\ a - 1 = m)) /\ a .. e - 1 = m + 1 .. m + i - 1
      BY <2>2
    <3> QED BY <2>2, <3>1 DEF IsLine
  <2>3. ~(e \in 1 .. m)
    BY <1>2
  <2> QED BY <2>1, <2>2, <2>3
<1> QED BY <1>1, <1>2

(* The same of command lines, and old lines stay what they were.           *)
OneMoreCommand(s, t, p) ==
    /\ \A q \in CommandLines(s) : /\ q[2] < p[2] /\ t[q[2]] = s[q[2]]
                                  /\ LineText(t, q) = LineText(s, q)
    /\ \A q : q \in CommandLines(t) <=> \/ q \in CommandLines(s)
                                        \/ q = p /\ LineText(t, p).words # <<>>

Ended(s) == s = <<>> \/ s[Len(s)].word = "NL"
CompleteLine(w) ==
    /\ w # <<>> /\ w[Len(w)].word = "NL"
    /\ \A j \in 1 .. Len(w) - 1 : w[j].word # "NL"
LineAdded(s, w, t, p) ==
    /\ LineText(t, p) = Stripped(Words(SubSeq(w, 1, Len(w) - 1)))
    /\ t[p[2]] = w[Len(w)]
    /\ OneMoreCommand(s, t, p)

LEMMA MoreCommands ==
    ASSUME NEW s \in Seq(Bytes(ClientIds)), NEW w \in Seq(Bytes(ClientIds)),
           Ended(s), CompleteLine(w)
    PROVE  LineAdded(s, w, s \o w, <<Len(s) + 1, Len(s) + Len(w)>>)
<1> DEFINE i == Len(w)
           t == s \o w
           p == <<Len(s) + 1, Len(s) + i>>
<1>1. /\ i \in 1 .. Len(w) /\ i = Len(w) /\ (s = <<>> \/ s[Len(s)].word = "NL")
      /\ w[i].word = "NL" /\ \A j \in 1 .. i - 1 : w[j].word # "NL"
  <2>1. i \in 1 .. Len(w)
    BY DEF CompleteLine
  <2> QED BY <2>1 DEF CompleteLine, Ended
<1> DEFINE m == Len(s)
<1>2. m \in Nat /\ i \in Nat \ {0}
  BY <1>1
<1>3. /\ Len(t) = m + i /\ \A j \in 1 .. m : t[j] = s[j]
      /\ \A j \in 1 .. i : t[m + j] = w[j]
  BY Joined
<1>4. p[1] = m + 1 /\ p[2] = m + i
  OBVIOUS
<1>5. p = <<m + 1, m + i>>
  OBVIOUS
<1>6. SubSeq(t, Len(s) + 1, Len(s) + i - 1) = SubSeq(w, 1, i - 1)
  BY <1>1, SliceRight
<1>7. \A a \in 1 .. m, e \in 0 .. m : SubSeq(t, a, e) = SubSeq(s, a, e)
  BY SliceLeft
<1> HIDE DEF t, p, i
<1>8. LineText(t, p) = Stripped(Words(SubSeq(w, 1, i - 1)))
  <2>1. SubSeq(t, p[1], p[2] - 1) = SubSeq(w, 1, i - 1)
    <3> DEFINE x == Len(s) + 1  y == Len(s) + i - 1
    <3>1. p[1] = x /\ p[2] - 1 = y
      BY <1>2, <1>4
    <3>2. SubSeq(t, x, y) = SubSeq(w, 1, i - 1)
      BY <1>6
    <3> HIDE DEF x, y
    <3> QED BY <3>1, <3>2
  <2> QED BY <2>1, Zenon DEF LineText
<1>9. t[p[2]] = w[i]
  BY <1>2, <1>3, <1>4
<1>10. ASSUME NEW q \in (1 .. m) \X (1 .. m)
      PROVE  q[2] < p[2] /\ t[q[2]] = s[q[2]] /\ LineText(t, q) = LineText(s, q)
  <2>1. q[1] \in 1 .. m /\ q[2] - 1 \in 0 .. m /\ q[2] \in 1 .. m
    BY <1>2
  <2>2. SubSeq(t, q[1], q[2] - 1) = SubSeq(s, q[1], q[2] - 1)
    BY <2>1, <1>7
  <2>3. q[2] < p[2]
    BY <1>2, <1>4, <2>1
  <2> QED BY <1>3, <2>1, <2>2, <2>3 DEF LineText
<1>11. OneMoreLine(s, t, m, i)
  <2>1. m = 0 \/ t[m].word = "NL"
    <3>1. s = <<>> => m = 0
      OBVIOUS
    <3> QED BY <1>1, <1>2, <1>3, <3>1
  <2>2. ASSUME NEW j \in m + 1 .. m + i - 1 PROVE t[j].word # "NL"
    <3> DEFINE k == j - m
    <3>1. k \in 1 .. i - 1 /\ k \in 1 .. i /\ m + k = j
      BY <1>2
    <3> HIDE DEF k
    <3>2. t[m + k] = w[k]
      BY <1>3, <3>1
    <3> QED BY <1>1, <3>1, <3>2
  <2> QED BY <1>1, <1>2, <1>3, <2>1, <2>2 DEF OneMoreLine
<1> HIDE DEF m
<1>12. TheLinesAnd(s, t, m, i)
  BY <1>2, <1>11, LinesOfMore
<1>13. ASSUME NEW q
      PROVE  q \in CommandLines(t) <=> \/ q \in CommandLines(s)
                                       \/ q = p /\ LineText(t, p).words # <<>>
  <2>1. p \in (1 .. m + i) \X (1 .. m + i) /\ IsLine(t, p)
    <3>1. m + 1 \in 1 .. m + i /\ m + i \in 1 .. m + i
      BY <1>2
    <3> QED BY <1>5, <1>12, <3>1 DEF TheLinesAnd
  <2>2. (1 .. m) \X (1 .. m) \subseteq (1 .. m + i) \X (1 .. m + i)
    BY <1>2
  <2>3. ASSUME q \in CommandLines(t)
        PROVE  q \in CommandLines(s) \/ (q = p /\ LineText(t, p).words # <<>>)
    <3>1. /\ q \in (1 .. m + i) \X (1 .. m + i) /\ IsLine(t, q)
          /\ LineText(t, q).words # <<>>
      BY <1>3, <2>3 DEF CommandLines
    <3>2. PICK a \in 1 .. m + i, e \in 1 .. m + i : q = <<a, e>>
      BY <3>1
    <3>3. CASE a \in 1 .. m /\ e \in 1 .. m /\ IsLine(s, <<a, e>>)
      <4>1. q \in (1 .. m) \X (1 .. m) /\ IsLine(s, q)
        BY <3>2, <3>3
      <4> QED BY <1>10, <3>1, <4>1 DEF CommandLines, m
    <3>4. CASE a = m + 1 /\ e = m + i
      BY <1>5, <3>1, <3>2, <3>4
    <3> QED BY <1>12, <3>1, <3>2, <3>3, <3>4 DEF TheLinesAnd
  <2>4. ASSUME q \in CommandLines(s) PROVE q \in CommandLines(t)
    <3>1. /\ q \in (1 .. m) \X (1 .. m) /\ IsLine(s, q)
          /\ LineText(s, q).words # <<>>
      BY <2>4 DEF CommandLines, m
    <3>2. PICK a \in 1 .. m, e \in 1 .. m : q = <<a, e>>
      BY <3>1
    <3>3. a \in 1 .. m + i /\ e \in 1 .. m + i
      BY <1>2
    <3>4. IsLine(t, q)
      BY <1>12, <3>1, <3>2, <3>3 DEF TheLinesAnd
    <3> QED BY <1>3, <1>10, <2>2, <3>1, <3>4 DEF CommandLines, m
  <2>5. LineText(t, p).words # <<>> => p \in CommandLines(t)
    BY <1>3, <2>1 DEF CommandLines
  <2> QED BY <2>3, <2>4, <2>5
<1>14. CommandLines(s) \subseteq (1 .. m) \X (1 .. m)
  BY DEF CommandLines, m
<1>15. OneMoreCommand(s, t, p)
  BY <1>10, <1>13, <1>14 DEF m, OneMoreCommand
<1> QED BY <1>8, <1>9, <1>15 DEF LineAdded, i, t, p

(* Nothing is executed, old lines stay what they were, clients may quit.   *)
LEMMA OrderKeeps ==
    ASSUME NEW ex, NEW s, NEW t, NEW g, NEW h, NEW p, g \subseteq h, InOrderOf(ex, s, g),
           OneMoreCommand(s, t, p), LineText(t, p).words = <<>>
    PROVE  InOrderOf(ex, t, h)
<1>1. /\ CommandLines(t) = CommandLines(s)
      /\ \A q \in CommandLines(s) : t[q[2]] = s[q[2]] /\ LineText(t, q) = LineText(s, q)
  BY DEF OneMoreCommand
<1>2. PICK at \in [1 .. Len(ex) -> CommandLines(s)] :
         /\ \A q \in CommandLines(s) : \E k \in 1 .. Len(ex) : at[k] = q
         /\ \A k, l \in 1 .. Len(ex) : k < l => at[k][2] < at[l][2]
         /\ \A k \in 1 .. Len(ex) : ExecutedFor(ex[k], s, at[k], g)
  BY DEF InOrderOf
<1>3. \A k \in 1 .. Len(ex) : ExecutedFor(ex[k], t, at[k], h)
  BY <1>1, <1>2 DEF ExecutedFor
<1> QED BY <1>1, <1>2, <1>3 DEF InOrderOf

(* One command is executed, for the line at p, behind all the others.      *)
LEMMA OrderGrows ==
    ASSUME NEW S, NEW ex \in Seq(S), NEW x, NEW s, NEW t, NEW g, NEW h, NEW p,
           g \subseteq h, InOrderOf(ex, s, g),
           OneMoreCommand(s, t, p), LineText(t, p).words # <<>>,
           ExecutedFor(x, t, p, h)
    PROVE  InOrderOf(Append(ex, x), t, h)
<1>1. /\ \A q : q \in CommandLines(t) <=> q \in CommandLines(s) \/ q = p
      /\ \A q \in CommandLines(s) : /\ q[2] < p[2] /\ t[q[2]] = s[q[2]]
                                    /\ LineText(t, q) = LineText(s, q)
  BY DEF OneMoreCommand
<1> DEFINE n == Len(ex)
           more == Append(ex, x)
<1>2. PICK at \in [1 .. n -> CommandLines(s)] :
         /\ \A q \in CommandLines(s) : \E k \in 1 .. n : at[k] = q
         /\ \A k, l \in 1 .. n : k < l => at[k][2] < at[l][2]
         /\ \A k \in 1 .. n : ExecutedFor(ex[k], s, at[k], g)
  BY DEF InOrderOf
<1>3. /\ n \in Nat /\ Len(more) = n + 1 /\ more[n + 1] = x
      /\ \A k \in 1 .. n : more[k] = ex[k]
  <2>1. ex \in Seq(S \cup {x}) /\ x \in S \cup {x}
    BY SeqMonotonic
  <2> QED BY <2>1, AppendProperties
<1> DEFINE to == [k \in 1 .. n + 1 |-> IF k = n + 1 THEN p ELSE at[k]]
<1>4. /\ n + 1 \in 1 .. n + 1 /\ \A k \in 1 .. n : k \in 1 .. n + 1 /\ k # n + 1
      /\ \A k \in 1 .. n + 1 : k = n + 1 \/ k \in 1 .. n
  BY <1>3
<1> HIDE DEF more, n
<1>5. to[n + 1] = p /\ \A k \in 1 .. n : to[k] = at[k]
  BY <1>4
<1>6. to \in [1 .. n + 1 -> CommandLines(t)]
  BY <1>1, <1>2, <1>4
<1> HIDE DEF to
<1>7. \A q \in CommandLines(t) : \E k \in 1 .. n + 1 : to[k] = q
  BY <1>1, <1>2, <1>4, <1>5
<1>8. ASSUME NEW k \in 1 .. n + 1, NEW l \in 1 .. n + 1, k < l PROVE to[k][2] < to[l][2]
  <2>1. k \in 1 .. n
    BY <1>3, <1>8
  <2> QED BY <1>1, <1>2, <1>4, <1>5, <1>8, <2>1
<1>9. ASSUME NEW k \in 1 .. n + 1 PROVE ExecutedFor(more[k], t, to[k], h)
  <2>1. CASE k = n + 1
    BY <1>3, <1>5, <2>1
  <2>2. CASE k \in 1 .. n
    <3>1. ExecutedFor(ex[k], s, at[k], g) /\ at[k] \in CommandLines(s)
      BY <1>2, <2>2
    <3>2. ExecutedFor(ex[k], t, at[k], h)
      BY <1>1, <3>1 DEF ExecutedFor
    <3> QED BY <1>3, <1>5, <2>2, <3>2
  <2> QED BY <1>4, <2>1, <2>2
<1>10. InOrderOf(more, t, h)
  BY <1>3, <1>6, <1>7, <1>8, <1>9 DEF InOrderOf
<1> QED BY <1>10 DEF more

(* What is in front of the buffer is what has left it.                     *)
LEMMA LeftOf ==
    ASSUME NEW S, NEW d \in Seq(S), NEW r \in Seq(S)
    PROVE  SubSeq(d \o r, 1, Len(d \o r) - Len(r)) = d
<1>1. Len(d) \in Nat /\ Len(r) \in Nat /\ Len(d \o r) = Len(d) + Len(r)
  BY ConcatProperties
<1>2. Len(d \o r) - Len(r) = Len(d)
  BY <1>1
<1>3. CASE d = <<>>
  <2>1. Len(d) = 0 /\ 1 \in Int /\ 0 \in Int /\ 0 < 1
    BY <1>3
  <2>2. SubSeq(d \o r, 1, 0) = <<>>
    BY <2>1, SubSeqEmpty
  <2> QED BY <1>2, <1>3, <2>1, <2>2
<1>4. CASE d # <<>>
  <2>1. 1 \in 1 .. Len(d) /\ Len(d) \in 0 .. Len(d)
    BY <1>4
  <2>2. SubSeq(d \o r, 1, Len(d)) = SubSeq(d, 1, Len(d))
    BY <2>1, SliceLeft
  <2> QED BY <1>2, <2>2, SubSeqFull
<1> QED BY <1>3, <1>4

LEMMA Consumed ==
    ASSUME TcpInv
    PROVE  \E done \in Seq(Bytes(ClientIds)) :
               /\ stream = done \o rx_buf
               /\ done = <<>> \/ done[Len(done)].word = "NL"
               /\ SubSeq(stream, 1, Len(stream) - Len(rx_buf)) = done
<1>1. PICK done \in Seq(Bytes(ClientIds)) :
         /\ stream = done \o rx_buf
         /\ done = <<>> \/ done[Len(done)].word = "NL"
  BY DEF TcpInv, BufferIsTail
<1>2. rx_buf \in Seq(Bytes(ClientIds))
  BY Wider DEF TcpInv, BufInv, Owners
<1> QED BY <1>1, <1>2, LeftOf

(* The text of a line is a sequence of words.                              *)
LEMMA TextIsSeq ==
    ASSUME NEW C, NEW buf \in Seq(Bytes(C))
    PROVE  Len(Stripped(Words(buf)).words) \in Nat
<1> DEFINE ws == Words(buf)
<1>1. ws \in Seq(Symbol)
  <2>1. Len(buf) \in Nat /\ \A j \in 1 .. Len(buf) : buf[j].word \in Symbol
    <3>1. Len(buf) \in Nat /\ \A j \in 1 .. Len(buf) : buf[j] \in Bytes(C)
      OBVIOUS
    <3> QED BY <3>1 DEF Bytes
  <2>2. ws \in [1 .. Len(buf) -> Symbol]
    BY <2>1 DEF Words
  <2> HIDE DEF ws
  <2> QED BY <2>1, <2>2, SeqDef
<1> HIDE DEF ws
<1>2. ws # <<>> => Len(Front(ws)) \in Nat
  <2> SUFFICES ASSUME ws # <<>> PROVE Len(Front(ws)) \in Nat
    OBVIOUS
  <2>1. Len(ws) \in Nat /\ 1 \in Int /\ Len(ws) - 1 \in Int
        /\ \A j \in 1 .. Len(ws) - 1 : ws[j] \in Symbol
    BY <1>1
  <2>2. SubSeq(ws, 1, Len(ws) - 1) \in Seq(Symbol)
    BY <2>1, SubSeqProperties
  <2> QED BY <2>2 DEF Front
<1>3. Len(ws) \in Nat
  BY <1>1
<1>4. Stripped(ws).words = IF ws # <<>> /\ Last(ws) = "CR" THEN Front(ws) ELSE ws
  BY DEF Stripped
<1> QED BY <1>2, <1>3, <1>4 DEF ws

(* A turn of the loop over lines: head leaves the buffer head \o rest, and *)
(* is behind the lines that have left it before.                           *)
LEMMA TurnOfLoop ==
    ASSUME NEW done \in Seq(Bytes(ClientIds)), NEW head \in Seq(Bytes(ClientIds)),
           NEW rest \in Seq(Bytes(ClientIds))
    PROVE  /\ done \o (head \o rest) = (done \o head) \o rest
           /\ SubSeq((done \o head) \o rest, 1, Len((done \o head) \o rest) - Len(rest))
                  = done \o head
<1>1. done \o (head \o rest) = (done \o head) \o rest
  BY ConcatAssociative
<1>2. done \o head \in Seq(Bytes(ClientIds))
  BY ConcatProperties
<1> QED BY <1>1, <1>2, LeftOf

-----------------------------------------------------------------------------
(* Steps that leave the buffer and the commands alone.                     *)
LEMMA QuietLines ==
    ASSUME LinesInv, [Next]_vars, UNCHANGED <<rx_buf, stream, executed, quit>>,
           \/ UNCHANGED <<client_fd, pc>>
           \/ \A i \in 1 .. Len(rx_buf) : rx_buf[i].word # "NL"
    PROVE  LinesInv'
<1>1. TcpInv'
  BY TcpStep DEF LinesInv
<1>2. LineDone' /\ NewlinesOwn'
  BY DEF LinesInv, LineDone, NewlinesOwn
<1>3. ExecutedSeq' /\ Reassembly'
  BY DEF LinesInv, ExecutedSeq, Reassembly
<1> QED BY <1>1, <1>2, <1>3 DEF LinesInv

(* Nothing was executed of nothing.                                        *)
LEMMA NothingInOrder == ASSUME NEW g PROVE InOrderOf(<<>>, SubSeq(<<>>, 1, 0 - 0), g)
<1>1. SubSeq(<<>>, 1, 0 - 0) = <<>>
  OBVIOUS
<1>2. CommandLines(<<>>) = {}
  BY DEF CommandLines
<1>3. Len(<<>>) = 0 /\ 1 .. 0 = {}
  OBVIOUS
<1>4. [x \in {} |-> 0] \in [1 .. Len(<<>>) -> CommandLines(<<>>)]
  BY <1>2, <1>3
<1> QED BY <1>1, <1>2, <1>3, <1>4 DEF InOrderOf

LEMMA CloseLines == ASSUME LinesInv, Tick, close_client PROVE LinesInv'
<1>1. TcpInv'
  BY CloseKeeps DEF LinesInv
<1>2. rx_buf' = <<>> /\ stream' = <<>> /\ executed' = <<>>
  BY DEF close_client
<1>3. (LineDone /\ NewlinesOwn /\ ExecutedSeq /\ Reassembly)'
  <2>1. Len(<<>>) = 0 /\ 1 .. 0 = {} /\ <<>> \in Seq({})
    OBVIOUS
  <2>2. Reassembly'
    BY <1>2, <2>1, NothingInOrder DEF Reassembly
  <2>3. LineDone' /\ NewlinesOwn' /\ ExecutedSeq'
    BY <1>2, <2>1 DEF LineDone, NewlinesOwn, ExecutedSeq
  <2> QED BY <2>2, <2>3
<1> QED BY <1>1, <1>3 DEF LinesInv

(* A read brings newlines of the client only, and no line leaves.          *)
LEMMA ReadLines == ASSUME LinesInv, NEW n \in 1 .. Cap, tcp_read(n) PROVE LinesInv'
<1> DEFINE d == client_fd
           in == conn[d].inbox
           got == SubSeq(in, 1, n)
<1>1. /\ d \in ClientIds /\ n <= Len(in)
      /\ rx_buf' = rx_buf \o got /\ stream' = stream \o got
      /\ pc' = "lines" /\ UNCHANGED <<client_fd, executed, quit>>
  BY DEF tcp_read, Tick, LinesInv, TcpInv, TypeOK
<1>2. /\ in \in Seq(Bytes({d})) /\ rx_buf \in Seq(Bytes(Owners)) /\ n \in Nat
      /\ Owners \subseteq ClientIds /\ {d} \subseteq ClientIds
  BY <1>1, CapAssumption DEF LinesInv, TcpInv, ConnInv, BufInv, Owners
<1> HIDE DEF in
<1>3. n \in 0 .. Len(in)
  BY <1>1, <1>2
<1>4. got \in Seq(Bytes({d}))
  BY <1>2, <1>3, Cut
<1> HIDE DEF got
<1>5. rx_buf \in Seq(Bytes(ClientIds)) /\ got \in Seq(Bytes(ClientIds))
  BY <1>2, <1>4, Wider
<1>6. NewlinesOwn'
  <2> SUFFICES ASSUME NEW i \in 1 .. Len(rx_buf'), rx_buf'[i].word = "NL"
               PROVE  rx_buf'[i].from = d \/ (d = None /\ rx_buf'[i].from \in quit)
    BY <1>1 DEF NewlinesOwn
  <2>1. /\ Len(rx_buf') = Len(rx_buf) + Len(got)
        /\ \A j \in 1 .. Len(rx_buf) : rx_buf'[j] = rx_buf[j]
        /\ \A j \in 1 .. Len(got) : rx_buf'[Len(rx_buf) + j] = got[j]
        /\ Len(rx_buf) \in Nat /\ Len(got) \in Nat
    BY <1>1, <1>5, Joined, LenProperties
  <2>2. CASE i <= Len(rx_buf)
    <3>1. i \in 1 .. Len(rx_buf) /\ rx_buf'[i] = rx_buf[i]
      BY <2>1, <2>2
    <3> QED BY <3>1 DEF LinesInv, NewlinesOwn
  <2>3. CASE i > Len(rx_buf)
    <3> DEFINE j == i - Len(rx_buf)
    <3>1. j \in 1 .. Len(got) /\ Len(rx_buf) + j = i
      BY <2>1, <2>3
    <3> HIDE DEF j
    <3>2. rx_buf'[i] = got[j] /\ got[j] \in Bytes({d})
      BY <1>4, <2>1, <3>1, ElementOfSeq
    <3> QED BY <3>2 DEF Bytes
  <2> QED BY <2>1, <2>2, <2>3
<1>7. Reassembly'
  <2>1. PICK done \in Seq(Bytes(ClientIds)) :
           /\ stream = done \o rx_buf
           /\ SubSeq(stream, 1, Len(stream) - Len(rx_buf)) = done
    BY Consumed DEF LinesInv
  <2>2. stream' = done \o rx_buf' /\ rx_buf' \in Seq(Bytes(ClientIds))
    <3>1. (done \o rx_buf) \o got = done \o (rx_buf \o got)
      BY <1>5, ConcatAssociative
    <3>2. rx_buf \o got \in Seq(Bytes(ClientIds))
      BY <1>5, ConcatProperties
    <3> QED BY <1>1, <2>1, <3>1, <3>2
  <2>3. SubSeq(stream', 1, Len(stream') - Len(rx_buf')) = done
    BY <2>2, LeftOf
  <2> QED BY <1>1, <2>1, <2>3 DEF LinesInv, Reassembly
<1>8. TcpInv'
  BY ReadKeeps DEF LinesInv
<1> QED BY <1>1, <1>6, <1>7, <1>8 DEF LinesInv, LineDone, ExecutedSeq

(* The complete line at the front of the buffer leaves it and is executed, *)
(* unless it is empty.                                                     *)
LEMMA LineLines == ASSUME LinesInv, NEW i \in 1 .. Len(rx_buf), tcp_line(i) PROVE LinesInv'
<1> DEFINE rest == SubSeq(rx_buf, i + 1, Len(rx_buf))
           head == SubSeq(rx_buf, 1, i)
           ln   == Stripped(Words(SubSeq(rx_buf, 1, i - 1)))
           out  == handle_command(ln, Words(rest))
           x    == [out |-> out, to |-> client_fd]
<1>1. /\ rx_buf[i].word = "NL" /\ \A j \in 1 .. i - 1 : rx_buf[j].word # "NL"
      /\ rx_buf' = rest /\ pc = "lines" /\ UNCHANGED <<pc, stream>>
      /\ \/ ln.words = <<>> /\ UNCHANGED <<client_fd, executed, quit>>
         \/ /\ ln.words # <<>> /\ executed' = Append(executed, x)
            /\ \/ UNCHANGED <<client_fd, quit>>
               \/ client_fd' = None /\ quit' = quit \cup ({client_fd} \ {None})
  BY DEF tcp_line
<1>2. rx_buf \in Seq(Bytes(Owners)) /\ Owners \subseteq ClientIds /\ i \in Nat /\ i > 0
  BY DEF LinesInv, TcpInv, BufInv, Owners
<1>3. rx_buf \in Seq(Bytes(ClientIds)) /\ i \in 0 .. Len(rx_buf) /\ Len(rx_buf) \in Nat
  BY <1>2, Wider, LenProperties
<1>4. /\ head \in Seq(Bytes(ClientIds)) /\ Len(head) = i /\ head[i] = rx_buf[i]
      /\ rest \in Seq(Bytes(ClientIds)) /\ Len(rest) = Len(rx_buf) - i
      /\ head \o rest = rx_buf
  BY <1>2, <1>3, Cut
<1>5. Len(ln.words) \in Nat
  <2>1. \A j \in 1 .. i - 1 : rx_buf[j] \in Bytes(ClientIds)
    BY <1>2, <1>3
  <2>2. SubSeq(rx_buf, 1, i - 1) \in Seq(Bytes(ClientIds))
    BY <1>2, <2>1, SubSeqProperties
  <2> QED BY <2>2, TextIsSeq
<1>6. Whole(ln) => out = handle_command(ln, <<>>)
  BY <1>5, WholeMeans
<1>7. x.out = out /\ x.to = client_fd
  OBVIOUS
<1> HIDE DEF rest, head, ln, out, x
<1>8. /\ \A j \in 1 .. i : rx_buf[j] = head[j]
      /\ \A j \in 1 .. Len(rest) : rx_buf[i + j] = rest[j]
  <2> DEFINE u == head \o rest
  <2>1. head \in Seq(Bytes(ClientIds)) /\ rest \in Seq(Bytes(ClientIds))
    BY <1>4
  <2>2. /\ \A j \in 1 .. Len(head) : u[j] = head[j]
        /\ \A j \in 1 .. Len(rest) : u[Len(head) + j] = rest[j]
    BY <2>1, Joined
  <2>3. u = rx_buf
    BY <1>4
  <2> HIDE DEF u
  <2> QED BY <1>4, <2>2, <2>3
<1>9. quit \subseteq quit' /\ executed' \in {executed, Append(executed, x)}
  BY <1>1
<1>10. rx_buf[i].from = client_fd \/ (client_fd = None /\ rx_buf[i].from \in quit)
  BY <1>1 DEF LinesInv, NewlinesOwn
<1>11. NewlinesOwn'
  <2> SUFFICES ASSUME NEW j \in 1 .. Len(rest), rest[j].word = "NL"
               PROVE  \/ rest[j].from = client_fd'
                      \/ client_fd' = None /\ rest[j].from \in quit'
    BY <1>1 DEF NewlinesOwn
  <2> DEFINE k == i + j
  <2>1. k \in 1 .. Len(rx_buf) /\ rx_buf[k] = rest[j]
    BY <1>2, <1>3, <1>4, <1>8
  <2> HIDE DEF k
  <2>2. rest[j].from = client_fd \/ (client_fd = None /\ rest[j].from \in quit)
    BY <2>1 DEF LinesInv, NewlinesOwn
  <2>3. rest[j].from \in ClientIds
    <3>1. rest[j] \in Bytes(ClientIds)
      BY <1>4, ElementOfSeq
    <3> QED BY <3>1 DEF Bytes
  <2> QED BY <1>1, <2>2, <2>3, NoneIsNobody
<1>12. ExecutedSeq'
  <2>1. PICK S : executed \in Seq(S)
    BY DEF LinesInv, ExecutedSeq
  <2>2. executed \in Seq(S \cup {x}) /\ x \in S \cup {x}
    BY <2>1, SeqMonotonic
  <2>3. Append(executed, x) \in Seq(S \cup {x})
    BY <2>2, AppendProperties
  <2> QED BY <1>9, <2>2, <2>3 DEF ExecutedSeq
<1>13. Reassembly'
  <2>1. PICK done \in Seq(Bytes(ClientIds)) :
           /\ stream = done \o rx_buf
           /\ done = <<>> \/ done[Len(done)].word = "NL"
           /\ SubSeq(stream, 1, Len(stream) - Len(rx_buf)) = done
    BY Consumed DEF LinesInv
  <2> DEFINE t == done \o head
             p == <<Len(done) + 1, Len(done) + Len(head)>>
  <2>2. SubSeq(stream', 1, Len(stream') - Len(rx_buf')) = t
    <3>1. stream' = t \o rest
      <4>1. stream = done \o (head \o rest)
        BY <1>4, <2>1
      <4>2. done \o (head \o rest) = t \o rest
        BY <1>4, TurnOfLoop
      <4> QED BY <1>1, <4>1, <4>2, Zenon
    <3>2. SubSeq(t \o rest, 1, Len(t \o rest) - Len(rest)) = t
      BY <1>4, TurnOfLoop
    <3> QED BY <1>1, <3>1, <3>2
  <2>3. CompleteLine(head) /\ Ended(done)
    <3>1. head # <<>>
      BY <1>2, <1>4
    <3>2. ASSUME NEW j \in 1 .. i - 1 PROVE head[j].word # "NL"
      BY <1>1, <1>2, <1>8
    <3>3. head[Len(head)].word = "NL" /\ Len(head) - 1 = i - 1
      BY <1>1, <1>4
    <3> QED BY <2>1, <3>1, <3>2, <3>3 DEF CompleteLine, Ended
  <2>4. LineAdded(done, head, t, p)
    BY <1>4, <2>3, MoreCommands
  <2>5. LineText(t, p) = ln /\ t[p[2]] = rx_buf[i] /\ OneMoreCommand(done, t, p)
    <3>1. SubSeq(head, 1, Len(head) - 1) = SubSeq(rx_buf, 1, i - 1)
      <4>1. 1 \in 1 .. Len(head) /\ i - 1 \in 0 .. Len(head)
        BY <1>2, <1>4
      <4>2. SubSeq(head \o rest, 1, i - 1) = SubSeq(head, 1, i - 1)
        BY <1>4, <4>1, SliceLeft
      <4> QED BY <1>4, <4>2
    <3> HIDE DEF t, p
    <3> QED BY <1>4, <2>4, <3>1 DEF LineAdded, ln
  <2> HIDE DEF t, p
  <2>6. InOrderOf(executed, done, quit)
    BY <2>1 DEF LinesInv, Reassembly
  <2>7. CASE ln.words = <<>> /\ executed' = executed
    <3>1. InOrderOf(executed, t, quit')
      BY <1>9, <2>5, <2>6, <2>7, OrderKeeps
    <3> QED BY <2>2, <2>7, <3>1 DEF Reassembly
  <2>8. CASE ln.words # <<>> /\ executed' = Append(executed, x)
    <3>1. ExecutedFor(x, t, p, quit')
      BY <1>6, <1>7, <1>9, <1>10, <2>5 DEF ExecutedFor
    <3>2. PICK S : executed \in Seq(S)
      BY DEF LinesInv, ExecutedSeq
    <3>3. InOrderOf(Append(executed, x), t, quit')
      BY <1>9, <2>5, <2>6, <2>8, <3>1, <3>2, OrderGrows
    <3> QED BY <2>2, <2>8, <3>3 DEF Reassembly
  <2> QED BY <1>1, <2>7, <2>8
<1>14. TcpInv' /\ LineDone'
  BY <1>1, LineKeeps DEF LinesInv, LineDone
<1> QED BY <1>11, <1>12, <1>13, <1>14 DEF LinesInv

LEMMA LinesStep == LinesInv /\ [Next]_vars => LinesInv'
<1> SUFFICES ASSUME LinesInv, [Next]_vars PROVE LinesInv'
  OBVIOUS
<1>1. CASE UNCHANGED vars
  BY <1>1, QuietLines DEF vars, server, history
<1>2. ASSUME NEW c \in ClientIds, Connect(c) \/ HangUp(c) \/ \E l \in Lines : Send(c, l)
      PROVE  LinesInv'
  <2>1. UNCHANGED <<rx_buf, stream, executed, quit, client_fd, pc>>
    BY <1>2 DEF Connect, HangUp, Send, server, history
  <2> QED BY <2>1, QuietLines
<1>3. ASSUME NEW c \in ClientIds, tcp_accept(c) PROVE LinesInv'
  <2>1. UNCHANGED <<rx_buf, stream, executed, quit>> /\ pc = "tick"
    BY <1>3 DEF tcp_accept, history
  <2>2. \A i \in 1 .. Len(rx_buf) : rx_buf[i].word # "NL"
    BY <2>1 DEF LinesInv, LineDone
  <2> QED BY <2>1, <2>2, QuietLines
<1>4. CASE tcp_shift
  <2>1. /\ UNCHANGED <<rx_buf, stream, executed, quit>>
        /\ \A i \in 1 .. Len(rx_buf) : rx_buf[i].word # "NL"
    BY <1>4 DEF tcp_shift, Shift, history
  <2> QED BY <2>1, QuietLines
<1> QED BY <1>1, <1>2, <1>3, <1>4, CloseLines, ReadLines, LineLines
        DEF Next, tcp_server_tick, tcp_eof, tcp_error

LEMMA LinesInit == Init => LinesInv
<1> SUFFICES ASSUME Init PROVE LinesInv
  OBVIOUS
<1>1. rx_buf = <<>> /\ stream = <<>> /\ executed = <<>>
  BY DEF Init
<1>2. Len(<<>>) = 0 /\ 1 .. 0 = {} /\ <<>> \in Seq({})
  OBVIOUS
<1>3. Reassembly
  BY <1>1, <1>2, NothingInOrder DEF Reassembly
<1>4. LineDone /\ NewlinesOwn /\ ExecutedSeq
  BY <1>1, <1>2 DEF LineDone, NewlinesOwn, ExecutedSeq
<1> QED BY <1>3, <1>4, TcpInit DEF LinesInv

(* However TCP cuts the stream and whenever clients come and go,           *)
(* tcp_server_tick executes every complete command line it has read, each  *)
(* once and in order, and none that was not sent; a whole one means what   *)
(* it says whatever follows it, and its sender is answered.                *)
THEOREM TcpReassembly == Spec => []Reassembly
<1>1. Spec => []LinesInv
  BY LinesInit, LinesStep, PTL DEF Spec
<1> QED BY <1>1, PTL DEF LinesInv
=============================================================================
