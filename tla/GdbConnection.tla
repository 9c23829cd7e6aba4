---------------------------- MODULE GdbConnection ----------------------------
(* GdbConnection.cc: rr's end of the gdb remote protocol.  The socket is a  *)
(* stream of tokens: a packet is its start (the $, with the contents), its  *)
(* end (the #) and its checksum, and an interrupt is a byte of its own.     *)
(* The operators take and return a world w; w.c is the connection, with     *)
(*   req            the request that gdb waits an answer for                *)
(*   query, resume  the threads gdb selected with Hg and Hc                 *)
(*   sock, inbuf    tokens that can be read, and that have been read        *)
(*   out            what has been written to gdb                            *)
EXTENDS Integers, Sequences, SequencesExt

Fail(w, why) == IF w.failed = "no" THEN [w EXCEPT !.failed = why] ELSE w
Require(w, cond, why) == IF cond THEN w ELSE Fail(w, why)

(* Threads, and GdbThreadId::ANY. *)
Thread(pid, tid) == [pid |-> pid, tid |-> tid]
AnyThread == Thread(0, 0)

NoReq == [type |-> "NONE"]
Req(type) == [type |-> type]
is_resume_request(r) == r.type = "CONT"
request_needs_immediate_response(r) == r.type \notin {"NONE", "CONT"}

NewConnection(tgid) ==
  [req |-> NoReq, query |-> AnyThread, resume |-> AnyThread, tgid |-> tgid,
   alive |-> TRUE, no_ack |-> FALSE, sock |-> <<>>, inbuf |-> <<>>, out |-> <<>>]

-----------------------------------------------------------------------------
(* Tokens. *)
Tok(kind, p) == [kind |-> kind, p |-> p]
NoPacket == [k |-> "none"]
PacketTokens(p) == <<Tok("$", p), Tok("#", NoPacket), Tok("checksum", NoPacket)>>
Interrupt == Tok("interrupt", NoPacket)
Hangup == Tok("eof", NoPacket)
Ack == Tok("+", NoPacket)

(* Everything before the start of a packet or an interrupt is dropped. *)
skip_to_packet_start(c) ==
  LET starts == {i \in DOMAIN c.inbuf : c.inbuf[i].kind \in {"$", "interrupt"}}
      first == CHOOSE i \in starts : \A j \in starts : i <= j
  IN [c EXCEPT !.inbuf = IF starts = {} THEN <<>> ELSE SubSeq(@, first, Len(@))]

(* Is there a packet, or at least something to read? *)
sniff_packet(c) == skip_to_packet_start(c).inbuf # <<>> \/ c.sock # <<>>

(* One successful read().  A hangup is seen when nothing else is left. *)
read_data_once(c) ==
  LET data == SelectSeq(c.sock, LAMBDA k : k.kind # "eof") IN
  IF data = <<>> THEN [c EXCEPT !.alive = FALSE]
  ELSE [c EXCEPT !.inbuf = @ \o data,
                 !.sock = SelectSeq(@, LAMBDA k : k.kind = "eof")]

(* read_packet goes on reading until a packet is complete. *)
PacketComplete(c) ==
  /\ c.inbuf # <<>>
  /\ \/ c.inbuf[1].kind = "interrupt"
     \/ \E i \in DOMAIN c.inbuf : c.inbuf[i].kind = "#"

-----------------------------------------------------------------------------
(* Output.  consume_request ends the request and flushes the replies; a     *)
(* connection that gdb has closed takes the data without effect.            *)
write_packet(w, r) == [w EXCEPT !.c.out = Append(@, r)]
consume_request(w) == [w EXCEPT !.c.req = NoReq]

(* A reply_... function: it must answer the request that is pending. *)
Reply(w, type, r) ==
  LET checked == Require(w, w.c.req.type = type, "reply to another request")
  IN consume_request(write_packet(checked, [k |-> "reply", for |-> type, r |-> r]))

notify_no_such_thread(w) ==
  consume_request(write_packet(w, [k |-> "error", for |-> w.c.req.type]))

send_stop_reply_packet(w, thread, sig, at) ==
  write_packet(w, [k |-> "stop", thread |-> thread, sig |-> sig, at |-> at])

Resumed(c) == is_resume_request(c.req) \/ c.req.type = "INTERRUPT"

(* A stop of another process is not reported and leaves the request alone. *)
notify_stop(w, thread, sig, at) ==
  LET checked == Require(w, Resumed(w.c), "stop without a resume request")
      back == is_resume_request(w.c.req) /\ w.c.req.dir = "back"
      selected == IF back THEN AnyThread ELSE thread
      sent == send_stop_reply_packet(checked, thread, sig, at)
  IN IF w.c.tgid # thread.pid THEN checked
     ELSE consume_request([sent EXCEPT !.c.query = selected, !.c.resume = selected])

notify_exit_code(w) ==
  LET checked == Require(w, Resumed(w.c), "exit without a resume request")
  IN consume_request(write_packet(checked, [k |-> "exit"]))

reply_select_thread(w, ok) ==
  LET type == w.c.req.type
      sel == IF ~ok THEN w
             ELSE IF type = "SET_CONTINUE_THREAD" THEN [w EXCEPT !.c.resume = w.c.req.target]
             ELSE [w EXCEPT !.c.query = w.c.req.target]
  IN Reply(sel, type, IF ok THEN "OK" ELSE "E01")

(* gdb wants to be told of a stop when the process has been "relaunched". *)
notify_restart(c) ==
  [c EXCEPT !.query = AnyThread, !.resume = AnyThread,
            !.req = [type |-> "GET_STOP_REASON", target |-> AnyThread]]

notify_restart_failed(w) == Reply(w, "RESTART", "E01")

-----------------------------------------------------------------------------
(* Packets.  A packet is a record with its letter k and its arguments.      *)
Action(type, target) == [type |-> type, target |-> target]

process_bpacket(c, p) ==
  IF p.what \in {"c", "s"}
  THEN [type |-> "CONT", dir |-> "back",
        actions |-> <<Action(IF p.what = "s" THEN "step" ELSE "continue", c.resume)>>]
  ELSE NoReq

(* vCont: the actions of particular threads, then the default one.  Two     *)
(* defaults are refused.                                                    *)
vCont(p) ==
  LET defaults == SelectSeq(p.actions, LAMBDA a : a.target = AnyThread)
      others == SelectSeq(p.actions, LAMBDA a : a.target # AnyThread)
  IN IF Len(defaults) > 1 THEN NoReq
     ELSE [type |-> "CONT", dir |-> "forward", actions |-> others \o defaults]

process_vpacket(p) ==
  CASE p.what = "Cont" -> vCont(p)
    [] p.what = "Run" -> [type |-> "RESTART", from |-> p.from, param |-> p.param]
    [] p.what = "File" -> [type |-> p.file, arg |-> p.arg]
    [] OTHER -> NoReq          \* vCont?, vKill and unknown ones

xfer(c, p) ==
  CASE p.object = "siginfo" -> [type |-> IF p.write THEN "WRITE_SIGINFO" ELSE "READ_SIGINFO",
                                target |-> c.query]
    [] p.object = "auxv" /\ ~p.write -> [type |-> "GET_AUXV", target |-> c.query]
    [] p.object = "exec-file" /\ ~p.write -> [type |-> "GET_EXEC_FILE", target |-> p.target]
    [] OTHER -> NoReq          \* features, and what cannot be written

query(c, p) ==
  CASE p.what = "RRCmd" -> [type |-> "RR_CMD", cmd |-> p.cmd, target |-> AnyThread]
    [] p.what = "C" -> Req("GET_CURRENT_THREAD")
    [] p.what = "fThreadInfo" -> Req("GET_THREAD_LIST")
    [] p.what = "GetTLSAddr" -> [type |-> "TLS", target |-> p.target]
    [] p.what = "Offsets" -> [type |-> "GET_OFFSETS", target |-> c.query]
    [] p.what = "Symbol" -> [type |-> "QSYMBOL", name |-> p.name, target |-> AnyThread]
    [] p.what = "ThreadExtraInfo" -> [type |-> "GET_THREAD_EXTRA_INFO", target |-> p.target]
    [] p.what = "Search" -> [type |-> "SEARCH_MEM", target |-> c.query, mem |-> p.mem]
    [] p.what = "Xfer" -> xfer(c, p)
    [] OTHER -> NoReq          \* Attached, sThreadInfo, Supported, TStatus, unknown

(* The request a packet makes; NoReq if the connection answers it itself. *)
Request(c, p) ==
  CASE p.k = "b" -> process_bpacket(c, p)
    [] p.k = "D" -> Req("DETACH")
    [] p.k = "g" -> [type |-> "GET_REGS", target |-> c.query]
    [] p.k = "H" -> [type |-> IF p.c THEN "SET_CONTINUE_THREAD" ELSE "SET_QUERY_THREAD",
                     target |-> p.target]
    [] p.k = "m" -> [type |-> "GET_MEM", target |-> c.query]
    [] p.k = "p" -> [type |-> "GET_REG", target |-> c.query]
    [] p.k = "P" -> [type |-> "SET_REG", target |-> c.query, orig |-> p.orig]
    [] p.k = "q" -> query(c, p)
    [] p.k = "T" -> [type |-> "GET_IS_THREAD_ALIVE", target |-> p.target]
    [] p.k = "v" -> process_vpacket(p)
    [] p.k = "X" -> [type |-> "SET_MEM", target |-> c.query, len |-> p.len]
    [] p.k \in {"Z", "z"} -> [type |-> IF p.k = "Z" THEN "SET_BREAK" ELSE "REMOVE_BREAK",
                              target |-> AnyThread, addr |-> p.addr, cond |-> p.cond]
    [] p.k = "?" -> [type |-> "GET_STOP_REASON", target |-> c.query]
    [] OTHER -> NoReq          \* G, M, !, Q and unknown packets

(* The packet at the head of the input is handled and erased; its checksum  *)
(* stays behind.  One that needs no target is answered here and consumed.   *)
process_packet(w) ==
  LET c == w.c
      p == c.inbuf[1].p
      rest == IF c.inbuf[1].kind = "interrupt" THEN Tail(c.inbuf) ELSE SubSeq(c.inbuf, 3, Len(c.inbuf))
      r == IF c.inbuf[1].kind = "interrupt" THEN Req("INTERRUPT") ELSE Request(c, p)
      w1 == [w EXCEPT !.c.inbuf = rest]
      own == write_packet(w1, [k |-> "reply", for |-> "internal", r |-> p.k])
  IN IF r.type # "NONE" THEN [w1 EXCEPT !.c.req = r]
     ELSE consume_request([own EXCEPT !.c.no_ack = @ \/ p.k = "Q"])
=============================================================================
