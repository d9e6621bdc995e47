----------------------------- MODULE TcpServer -----------------------------
(***************************************************************************)
(* The command server of tcpserver.c (scenario_engine.h is a copy of it):  *)
(* one client at a time, a static line buffer that is filled by            *)
(* non-blocking reads, and the loop over the complete lines in it.         *)
(*                                                                         *)
(* A stream is a sequence of symbols: a word with the space after it, or   *)
(* "CR", or "NL"; each takes one place in the buffer.  TCP may cut it      *)
(* anywhere between two symbols.  What a command does to the fault         *)
(* injector is in Simulator; here it is recorded as an outcome.            *)
(*                                                                         *)
(* Definitions introduced as BUG are not part of the model: each is a form *)
(* of the definition below it that some property must reject.              *)
(***************************************************************************)
EXTENDS Integers, SequencesExt

CONSTANTS Clients,    \* bound: the clients that connect, one after the other
          Cap,        \* sizeof(rx_buf) - 1, 255
          Lines,      \* what a client may send, without the newline
          MaxLines    \* bound: lines sent in a behaviour

ClientIds == 1 .. Clients
None == 0             \* client_fd = -1

ASSUME ClientsAssumption == Clients \in Nat
ASSUME CapAssumption == Cap \in Nat \ {0}
ASSUME MaxLinesAssumption == MaxLines \in Nat
ASSUME LinesAssumption == \A l \in Lines : l \in Seq(STRING)

VARIABLES client_fd,
          rx_buf,      \* the rx_pos bytes in it, each with its sender
          pc,          \* "tick", or "lines" inside the loop over lines
          conn,        \* the connections: the kernel's side of them
          sent,        \* lines sent so far
          stream,      \* all that was read since rx_pos was last reset,
          executed,    \* the commands executed of that, and who was told
          quit         \* the clients that ended with QUIT

server  == <<client_fd, rx_buf, pc>>
history == <<stream, executed, quit>>
vars    == <<server, conn, sent, history>>

(* tcp_server_init *)
Init ==
    /\ client_fd = None /\ rx_buf = <<>> /\ pc = "tick"
    /\ conn = [c \in ClientIds |-> [at |-> "away", inbox |-> <<>>, end |-> "none"]]
    /\ sent = 0
    /\ stream = <<>> /\ executed = <<>> /\ quit = {}
-----------------------------------------------------------------------------
(* The ground stations: connect, send a line, hang up, also in the middle  *)
(* of a line, or break off.                                                *)
Alive(c) == conn[c].at \in {"waiting", "served"} /\ conn[c].end = "none"
By(c, line) == [i \in 1 .. Len(line) |-> [word |-> line[i], from |-> c]]

Connect(c) ==
    /\ conn[c].at = "away" /\ \A d \in 1 .. c - 1 : conn[d].at # "away"
    /\ conn' = [conn EXCEPT ![c].at = "waiting"]
    /\ UNCHANGED <<server, sent, history>>
Send(c, line) ==
    /\ Alive(c) /\ sent < MaxLines
    /\ sent' = sent + 1
    /\ \/ conn' = [conn EXCEPT ![c].inbox = @ \o By(c, Append(line, "NL"))]
       \/ conn' = [conn EXCEPT ![c].inbox = @ \o By(c, line), ![c].end = "fin"]
    /\ UNCHANGED <<server, history>>
HangUp(c) ==
    /\ Alive(c)
    /\ \/ conn' = [conn EXCEPT ![c].end = "fin"]
       \/ conn' = [conn EXCEPT ![c].end = "reset", ![c].inbox = <<>>]
    /\ UNCHANGED <<server, sent, history>>
-----------------------------------------------------------------------------
(* The words a lookup finds behind the first k words of a line.  It starts *)
(* at a fixed offset: when the line ends before it, with no CR in between, *)
(* the lookup is already in the next line, as far as that has arrived.     *)
WordsFrom(line, rest, k) ==
    IF Len(line.words) > k
    THEN SubSeq(line.words, k + 1, Len(line.words))
    ELSE IF line.cr
         THEN <<>>
         ELSE LET next == SelectSeq(rest, LAMBDA w : w \notin {"CR", "NL"})
              IN  SubSeq(next, k + 1 - Len(line.words), Len(next))

Numbers    == {"9.5", "5000"}
FaultWords == {"GPS_LOSS", "SENSOR_FREEZE", "BATT_SAG", "COMMS_DROP", "PKT_CORRUPT"}
Leading(words, n) ==
    CHOOSE k \in 0 .. n :
        /\ k <= Len(words) /\ \A i \in 1 .. k : words[i] \in Numbers
        /\ k = n \/ k = Len(words) \/ words[k + 1] \notin Numbers

(* What a line asks for, and with how many numbers.                        *)
handle_command(line, rest) ==
    LET args == WordsFrom(line, rest, 1)
        sub  == IF args = <<>> THEN "" ELSE Head(args)
    IN  CASE Head(line.words) = "STATUS" -> <<"STATUS">>
          [] Head(line.words) = "QUIT"   -> <<"QUIT">>
          [] Head(line.words) = "FAULT" /\ sub = "CLEAR" -> <<"CLEAR">>
          [] Head(line.words) = "FAULT" /\ sub \in FaultWords ->
                 <<sub, Leading(WordsFrom(line, rest, 2), IF sub = "BATT_SAG" THEN 2 ELSE 1)>>
          [] Head(line.words) = "FAULT" /\ sub \notin FaultWords \cup {"CLEAR"} ->
                 <<"ERR unknown fault type">>
          [] OTHER -> <<"ERR unknown command">>

(* The CR before the newline is stripped.                                  *)
Stripped(words) ==
    LET cr == words # <<>> /\ Last(words) = "CR"
    IN  [words |-> IF cr THEN Front(words) ELSE words, cr |-> cr]
Words(buf) == [i \in 1 .. Len(buf) |-> buf[i].word]
-----------------------------------------------------------------------------
(* What a read may ask for.  BUG: no place is kept for the terminator.     *)
RoomForAll == Cap + 1 - Len(rx_buf)
Room == Cap - Len(rx_buf)

Tick == pc = "tick" /\ client_fd # None

(* BUG: the line buffer keeps what the client left in it.                  *)
close_client_only ==
    /\ conn' = [conn EXCEPT ![client_fd].at = "gone", ![client_fd].inbox = <<>>]
    /\ client_fd' = None
    /\ UNCHANGED <<rx_buf, pc, sent, history>>
close_client ==
    /\ conn' = [conn EXCEPT ![client_fd].at = "gone", ![client_fd].inbox = <<>>]
    /\ client_fd' = None
    /\ rx_buf' = <<>> /\ stream' = <<>> /\ executed' = <<>>
    /\ UNCHANGED <<pc, sent, quit>>

tcp_accept(c) ==
    /\ pc = "tick" /\ client_fd = None
    /\ conn[c].at = "waiting" /\ \A d \in 1 .. c - 1 : conn[d].at # "waiting"
    /\ client_fd' = c
    /\ conn' = [conn EXCEPT ![c].at = "served"]
    /\ UNCHANGED <<rx_buf, pc, sent, history>>

(* A read returns 0 at the end of the stream, and when it asks for 0.      *)
(* BUG: the second is taken for a read that has to be repeated.            *)
EofAtEnd(c) == c.inbox = <<>> /\ c.end = "fin" /\ Room > 0
Eof(c) == (c.inbox = <<>> /\ c.end = "fin") \/ Room = 0
tcp_eof ==
    /\ Tick
    /\ Eof(conn[client_fd])
    /\ close_client
tcp_error ==
    /\ Tick /\ Room > 0
    /\ conn[client_fd].inbox = <<>> /\ conn[client_fd].end = "reset"
    /\ close_client

tcp_read(n) ==
    /\ Tick
    /\ n <= Room /\ n <= Len(conn[client_fd].inbox)
    /\ LET got == SubSeq(conn[client_fd].inbox, 1, n)
       IN  /\ rx_buf' = rx_buf \o got
           /\ stream' = stream \o got
           /\ conn' = [conn EXCEPT ![client_fd].inbox = SubSeq(@, n + 1, Len(@))]
    /\ pc' = "lines"
    /\ UNCHANGED <<client_fd, sent, executed, quit>>

(* A turn of the loop over lines: QUIT closes the client, and the loop     *)
(* goes on with what else was read; replies then go nowhere.               *)
tcp_line(i) ==
    /\ pc = "lines"
    /\ rx_buf[i].word = "NL" /\ \A j \in 1 .. i - 1 : rx_buf[j].word # "NL"
    /\ rx_buf' = SubSeq(rx_buf, i + 1, Len(rx_buf))
    /\ LET line == Stripped(Words(SubSeq(rx_buf, 1, i - 1)))
           out  == handle_command(line, Words(rx_buf'))
       IN  \/ /\ line.words = <<>>
              /\ UNCHANGED <<client_fd, conn, executed, quit>>
           \/ /\ line.words # <<>> /\ out # <<"QUIT">>
              /\ executed' = Append(executed, [out |-> out, to |-> client_fd])
              /\ UNCHANGED <<client_fd, conn, quit>>
           \/ /\ line.words # <<>> /\ out = <<"QUIT">>
              /\ executed' = Append(executed, [out |-> out, to |-> client_fd])
              /\ client_fd' = None
              /\ quit' = quit \cup ({client_fd} \ {None})
              /\ conn' = [c \in ClientIds |-> IF c = client_fd
                              THEN [conn[c] EXCEPT !.at = "gone", !.inbox = <<>>]
                              ELSE conn[c]]
    /\ UNCHANGED <<pc, sent, stream>>

(* The partial line is moved to the front.  BUG: it is not kept.           *)
ShiftNothing == <<>>
Shift == rx_buf
tcp_shift ==
    /\ pc = "lines"
    /\ \A i \in 1 .. Len(rx_buf) : rx_buf[i].word # "NL"
    /\ rx_buf' = Shift
    /\ pc' = "tick"
    /\ UNCHANGED <<client_fd, conn, sent, history>>

tcp_server_tick ==
    \/ \E c \in ClientIds : tcp_accept(c)
    \/ tcp_eof
    \/ tcp_error
    \/ \E n \in 1 .. Cap : tcp_read(n)
    \/ \E i \in 1 .. Len(rx_buf) : tcp_line(i)
    \/ tcp_shift

Next ==
    \/ tcp_server_tick
    \/ \E c \in ClientIds : Connect(c) \/ HangUp(c) \/ \E l \in Lines : Send(c, l)

(* main ticks the server in every iteration; clients owe nothing.          *)
Spec == Init /\ [][Next]_vars /\ WF_vars(tcp_server_tick)
-----------------------------------------------------------------------------
TypeOK ==
    /\ client_fd \in ClientIds \cup {None}
    /\ Len(rx_buf) <= Cap
    /\ pc \in {"tick", "lines"}
    /\ \A c \in ClientIds : /\ conn[c].at \in {"away", "waiting", "served", "gone"}
                            /\ conn[c].end \in {"none", "fin", "reset"}
    /\ sent \in 0 .. MaxLines
    /\ quit \subseteq ClientIds

(* The lines of a byte string, as pairs: from the start of the string or   *)
(* behind a newline up to the next newline.  Command lines are not empty.  *)
IsLine(s, p) ==
    /\ p[1] <= p[2] /\ s[p[2]].word = "NL"
    /\ p[1] = 1 \/ s[p[1] - 1].word = "NL"
    /\ \A j \in p[1] .. p[2] - 1 : s[j].word # "NL"
LineText(s, p) == Stripped(Words(SubSeq(s, p[1], p[2] - 1)))
CommandLines(s) ==
    {p \in (1 .. Len(s)) \X (1 .. Len(s)) : IsLine(s, p) /\ LineText(s, p).words # <<>>}

(* A line that says all that its command can take, or ends in CR.          *)
Whole(line) == line.cr \/ Head(line.words) # "FAULT" \/ Len(line.words) >= 3

(* Command x was executed for the line at p, when the clients in gone had  *)
(* quit: it means what the line says, whatever follows it, when the line   *)
(* is whole, and the client that sent the line is answered, unless it had  *)
(* sent QUIT before.                                                       *)
ExecutedFor(x, s, p, gone) ==
    /\ Whole(LineText(s, p)) => x.out = handle_command(LineText(s, p), <<>>)
    /\ x.to = s[p[2]].from \/ (x.to = None /\ s[p[2]].from \in gone)

(* Commands are the command lines of s: each was executed once, in order,  *)
(* and none was made up.                                                   *)
InOrderOf(commands, s, gone) ==
    \E at \in [1 .. Len(commands) -> CommandLines(s)] :
        /\ \A p \in CommandLines(s) : \E k \in 1 .. Len(commands) : at[k] = p
        /\ \A k, l \in 1 .. Len(commands) : k < l => at[k][2] < at[l][2]
        /\ \A k \in 1 .. Len(commands) : ExecutedFor(commands[k], s, at[k], gone)

(* However TCP cuts the stream, the commands executed are the command      *)
(* lines of what has been read and has left the buffer.                    *)
Reassembly ==
    InOrderOf(executed, SubSeq(stream, 1, Len(stream) - Len(rx_buf)), quit)

(* A client that hangs up, breaks off or is cut off in the middle of a     *)
(* line leaves nothing in the buffer for the next client's first line to   *)
(* be appended to.  (One that sends QUIT and more in the same read does.)  *)
OwnBytesOnly ==
    \A i \in 1 .. Len(rx_buf) : rx_buf[i].from \in {client_fd} \cup quit

(* Nothing a client sends wedges the server: what has arrived is read, or  *)
(* the client is cut off, also when a line fills the buffer and never      *)
(* ends.                                                                   *)
InputConsumed ==
    \A c \in ClientIds :
        (client_fd = c /\ conn[c].inbox # <<>>) ~> (client_fd # c \/ conn[c].inbox = <<>>)
=============================================================================
