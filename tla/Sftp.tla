-------------------------------- MODULE Sftp --------------------------------
(***************************************************************************)
(* libssh2: the SFTP subsystem (sftp.c): its start, the frames it reads off*)
(* its channel, the answers it finds by type and request id, and every     *)
(* operation on files, directories and handles.                            *)
(*                                                                         *)
(* The session is not blocking.  An operation that waits for its answer    *)
(* returns EAGAIN and may be left for another one; a blocking call is one  *)
(* that is repeated.  One whose request is not sent yet is repeated first, *)
(* with the same arguments, as channel.c asks for.                         *)
(*                                                                         *)
(* The channel is external (SshChannel models it): a write takes at most   *)
(* ChunkMax units, a read takes what has arrived.  The window of the       *)
(* channel has room, since no more than MaxPending requests are under way. *)
(* Lengths are in units: a request is one unit and the data it writes, a   *)
(* reply two units of length, one of type and id, and one of content.      *)
(* Allocations succeed.                                                    *)
(***************************************************************************)
EXTENDS Integers, Sequences, SequencesExt, FiniteSets, FiniteSetsExt

CONSTANTS
    Content,      \* the file that is downloaded, a sequence of units
    Names,        \* the directory that is listed
    Jobs,         \* sets of handles, those of a behaviour being one of them
    Blocks,       \* what is uploaded, block by block, as it is read from the stream
    ReadSize,     \* buffer_maxlen of a read
    ReadMax,      \* LIBSSH2_SFTP_PACKET_MAXLEN - 13, what one request asks for
    ChunkMax,     \* the 32768 bytes that channel_write takes at a time
    Versions,     \* what servers say in FXP_VERSION
    MaxRequests,  \* bound: requests with an id
    MaxPending,   \* bound: operations under way at a time
    MaxMisc,      \* bound: only as many first requests may be no part of a transfer
    MaxFaults     \* bound: refusals, odd answers, replies in pieces, waits that time out

ASSUME SftpAssumption ==
    /\ {ReadSize, ReadMax, ChunkMax} \subseteq Nat \ {0}
    /\ {MaxRequests, MaxPending, MaxMisc, MaxFaults} \subseteq Nat
    /\ Versions \subseteq Nat

Handles == {"r", "w", "d"}   \* the file read, the file written, the directory
Transfers == {"open", "read", "readdir", "write", "close"}
Misc == {"fstat", "stat", "symlink", "unlink", "rename", "mkdir", "rmdir"}
Ops == Transfers \cup Misc
\* sftp_packet_requirev is used by these, sftp_packet_require by the others.
Timed == {"open", "read", "readdir", "fstat", "stat", "symlink"}

VARIABLES
    sftp,      \* the subsystem: "none", a state of sftp_init, "up" or "down"
    version,   \* of the protocol, once the subsystem is up
    st,        \* the state of every operation: [at, id, h, buf]
    reqid,     \* request_id
    run,       \* the operation whose function is executing, or "none"
    packets,   \* the replies read and not yet asked for
    frame,     \* the packet being read: partial_packet, or none
    timer,     \* requirev_start: "off", "running", or "expired" 60 seconds later
    wpacket,   \* write_packet
    hs,        \* the handles: [open, offset, names]
    out, in, avail,   \* units in both directions, and how many of in have arrived
    conn,      \* "up", "eof" (channel closed by the server), "broken", "disc" (noticed)
    srv,       \* the server: [pending, opened, file, dirpos]
    app,       \* what the application was told: [got, listed, wrote, block, ended, lost]
    faults     \* counter for the bound

client == <<sftp, version, st, reqid, run, packets, frame, timer, wpacket, hs>>
wire == <<out, in, avail, conn>>
vars == <<client, wire, srv, app, faults>>

NoFrame == [len |-> 0, got |-> <<>>]
NoPacket == [op |-> "none"]
Idle == [at |-> "idle", id |-> 0, h |-> "none", buf |-> <<>>]

-----------------------------------------------------------------------------
(***************************************************************************)
(* The channel (external).                                                 *)
(***************************************************************************)
Size(q) == 1 + Len(q.data)
Units(q, n) == [i \in 1..n |-> <<q, i>>]
ReplyUnits == 4
Reply(type, id, code, data) == [type |-> type, id |-> id, code |-> code, data |-> data]

\* A frame is complete for the server; a part of another request in it counts as data.
Received(stream, q) ==
    [q EXCEPT !.data = [i \in DOMAIN q.data |->
       LET u == stream[i + 1] IN IF u[2] = 1 THEN "junk" ELSE u[1].data[u[2] - 1]]]

\* channel_write: the first units of a packet, on the way to the server.
ChannelWrite(q, n) ==
    LET stream == out \o Units(q, Min({n, ChunkMax}))
        head == stream[1][1]
    IN  IF conn # "up" THEN UNCHANGED <<out, srv>>
        ELSE IF stream[1][2] = 1 /\ Len(stream) >= Size(head)
          THEN /\ srv' = [srv EXCEPT !.pending = @ \cup {Received(stream, head)}]
               /\ out' = SubSeq(stream, Size(head) + 1, Len(stream))
          ELSE out' = stream /\ UNCHANGED srv
Writable == conn \in {"up", "eof"}

\* channel_read of n units: what has arrived.
Arrived(n) == SubSeq(in, 1, Min({n, avail}))
Consume(n) ==
    /\ in' = SubSeq(in, Min({n, avail}) + 1, Len(in))
    /\ avail' = avail - Min({n, avail})

-----------------------------------------------------------------------------
(***************************************************************************)
(* Waiting for an answer.                                                  *)
(***************************************************************************)
\* The types of packets an operation may take, in the order in which it asks for them.
Valid(op) ==
    CASE op = "open" -> IF st.open.at = "handle" THEN <<"HANDLE">> ELSE <<"HANDLE", "STATUS">>
      [] op = "read" -> <<"DATA", "STATUS">>
      [] op \in {"readdir", "symlink"} -> <<"NAME", "STATUS">>
      [] op \in {"fstat", "stat"} -> <<"ATTRS", "STATUS">>
      [] op = "init" -> <<"VERSION">>
      [] OTHER -> <<"STATUS">>

\* sftp_packet_ask: a packet of that type with that id; of a VERSION the type is enough.
sftp_packet_ask(type, id) ==
    {i \in DOMAIN packets : packets[i].type = type /\ (type = "VERSION" \/ packets[i].id = id)}

Waiting(op) == IF op = "init" THEN 0 ELSE st[op].id

\* sftp_packet_requirev looks at the brigade only while the socket is connected,
\* sftp_packet_require once in any case.
Answers(op) ==
    IF op \in Timed /\ conn = "disc" /\ ~(op = "open" /\ st.open.at = "handle") THEN {}
    ELSE LET types == {t \in DOMAIN Valid(op) :
                         sftp_packet_ask(Valid(op)[t], Waiting(op)) # {}}
         IN  IF types = {} THEN {}
             ELSE {Min(sftp_packet_ask(Valid(op)[Min(types)], Waiting(op)))}

Takes(op, i) ==
    /\ packets' = RemoveAt(packets, i)
    /\ IF op \in Timed THEN timer' = "off" ELSE UNCHANGED timer

\* What an operation that fails takes with it: the part of a buffer that a read had
\* filled, and names that the server will not send again.
Failed(op) ==
    [app EXCEPT !.lost = IF op = "readdir" \/ (op = "read" /\ st.read.buf # <<>>)
                           THEN @ \cup {op} ELSE @]

\* The function returns what its caller takes for a failure; its state is idle again.
Fails(op) ==
    /\ run' = "none"
    /\ IF op = "init" THEN sftp' = "down" /\ UNCHANGED <<st, app>>
       ELSE st' = [st EXCEPT ![op] = Idle] /\ app' = Failed(op) /\ UNCHANGED sftp
    /\ IF op \in Timed THEN timer' = "off" ELSE UNCHANGED timer

\* EAGAIN: a timed wait ends when its time is over.  A wait for the HANDLE that follows
\* a STATUS goes back to the state before: whatever sftp_open says of it then (NULL), the
\* open can be left, or repeated, as after EAGAIN.
ReturnsAgain(op) ==
    IF op \in Timed /\ timer = "expired" /\ st[op].at = "sent" THEN Fails(op)
    ELSE /\ run' = "none"
         /\ st' = IF op = "open" THEN [st EXCEPT !.open.at = "sent"] ELSE st
         /\ UNCHANGED <<sftp, app, timer>>

\* sftp_packet_add: the type and the id are the third unit of a reply that was read from
\* its start; anything else is junk.
Junk == Reply("junk", 0, "none", <<>>)
sftp_packet_add(units) ==
    Append(packets, IF units[1][2] = 3 THEN units[1][1] ELSE Junk)

\* A length cannot be read: an error, fewer bytes than it has, or the end of the channel.
MutantNoLength == conn = "broken" \/ avail = 1
NoLength == conn = "broken" \/ avail = 1 \/ (conn = "eof" /\ avail = 0)
Aligned(units) == Len(units) = 2 /\ units[1][2] = 1

\* sftp_packet_read, the length.  Fewer bytes than that are lost, as are those of a
\* length that cannot be one; one read off the middle of a reply may be any length.
ReadsLength ==
    /\ frame = NoFrame
    /\ LET units == Arrived(2) IN
       \/ /\ conn = "up" /\ avail = 0
          /\ ReturnsAgain(run)
          /\ UNCHANGED <<frame, in, avail, conn>>
       \/ /\ NoLength
          /\ Fails(run)
          /\ IF conn = "broken" THEN conn' = "disc" /\ UNCHANGED <<in, avail>>
             ELSE Consume(2) /\ UNCHANGED conn
          /\ UNCHANGED frame
       \/ /\ conn \in {"up", "eof"} /\ avail >= 2
          /\ Consume(2)
          /\ \/ /\ \E n \in 1..2 : /\ Aligned(units) => n = 2
                                   /\ frame' = [len |-> n, got |-> <<>>]
                /\ UNCHANGED <<sftp, st, run, app, timer>>
             \/ ~Aligned(units) /\ Fails(run) /\ UNCHANGED frame
          /\ UNCHANGED conn
    /\ UNCHANGED packets

\* sftp_packet_read, the rest.  What was read stays in partial_packet on EAGAIN, and is
\* dropped on an error.  Nothing to read on a closed channel is no reason to stop.
ReadsPacket ==
    /\ frame # NoFrame
    /\ LET want == frame.len - Len(frame.got)
           got == frame.got \o Arrived(want)
       IN
       \/ /\ conn = "up" /\ avail = 0
          /\ ReturnsAgain(run)
          /\ UNCHANGED <<frame, packets, in, avail, conn>>
       \/ /\ conn = "broken"
          /\ Fails(run)
          /\ frame' = NoFrame /\ conn' = "disc"
          /\ UNCHANGED <<packets, in, avail>>
       \/ /\ conn \in {"up", "eof"} /\ avail > 0
          /\ Consume(want)
          /\ IF Len(got) = frame.len
               THEN frame' = NoFrame /\ packets' = sftp_packet_add(got)
               ELSE frame' = [frame EXCEPT !.got = got] /\ UNCHANGED packets
          /\ UNCHANGED <<sftp, st, run, app, timer, conn>>

\* The loops of sftp_packet_require and sftp_packet_requirev.
Awaits ==
    /\ run # "none" /\ Answers(run) = {}
    /\ run = "init" => sftp = "sent3"
    /\ \/ conn = "disc" /\ Fails(run) /\ UNCHANGED <<frame, packets, in, avail, conn>>
       \/ conn # "disc" /\ (ReadsLength \/ ReadsPacket)
    /\ UNCHANGED <<version, reqid, wpacket, hs, out, srv, faults>>

TimePasses ==
    /\ timer = "running" /\ run = "none" /\ faults < MaxFaults
    /\ timer' = "expired" /\ faults' = faults + 1
    /\ UNCHANGED <<sftp, version, st, reqid, run, packets, frame, wpacket, hs, wire, srv, app>>

-----------------------------------------------------------------------------
(***************************************************************************)
(* The start of the subsystem, and its end.                                *)
(***************************************************************************)
\* sftp_init, up to FXP_VERSION: a session channel is opened, the subsystem asked for,
\* its extended data ignored, and FXP_INIT written.  Each of these may return EAGAIN, and
\* is then repeated; only the extended data cannot fail.  A failure frees the channel.
InitStages == <<"created", "sent", "sent1", "sent2", "sent3">>
sftp_init ==
    /\ run \in {"none", "init"}
    /\ \/ sftp = "none" /\ sftp' = "created" /\ run' = "init" /\ UNCHANGED <<out, srv>>
       \/ \E i \in 1..4 :
            /\ sftp = InitStages[i]
            /\ \/ sftp' = InitStages[i + 1] /\ run' = "init"
               \/ sftp' = sftp /\ run = "init" /\ run' = "none"
               \/ InitStages[i] # "sent1" /\ sftp' = "down" /\ run' = "none"
            /\ IF sftp' = "sent3"
                 THEN Writable /\ ChannelWrite([op |-> "init", id |-> 0, h |-> "none", off |-> 0,
                                                n |-> 0, data |-> <<>>], 1)
                 ELSE UNCHANGED <<out, srv>>
       \/ sftp = "sent3" /\ run = "none" /\ run' = "init" /\ UNCHANGED <<sftp, out, srv>>
    /\ UNCHANGED <<version, st, reqid, packets, frame, timer, wpacket, hs, in, avail, conn,
                   app, faults>>

\* The rest of sftp_init: a version above ours counts as ours.
InitEnds ==
    /\ run = "init" /\ sftp = "sent3"
    /\ \E i \in Answers("init") :
         /\ Takes("init", i)
         /\ version' = Min({packets[i].code, 3})
    /\ sftp' = "up"
    /\ run' = "none"
    /\ UNCHANGED <<st, reqid, frame, wpacket, hs, wire, srv, app, faults>>

\* sftp_shutdown, and libssh2_sftp_dtor once the channel is freed: what was under way is
\* dropped.  Handles that are open are not closed.
sftp_shutdown ==
    /\ run = "none" /\ sftp = "up"
    /\ sftp' = "down"
    /\ st' = [op \in Ops |-> Idle] /\ packets' = <<>> /\ frame' = NoFrame
    /\ timer' = "off" /\ wpacket' = NoPacket
    /\ in' = <<>> /\ avail' = 0 /\ out' = <<>> /\ srv' = [srv EXCEPT !.pending = {}]
    /\ UNCHANGED <<version, reqid, run, hs, conn, app, faults>>

-----------------------------------------------------------------------------
(***************************************************************************)
(* Operations.  Each is called to make its request, and again for as long  *)
(* as it returns EAGAIN.                                                   *)
(***************************************************************************)
Under == {op \in Ops : st[op].at # "idle"}
Callable(op) == run = "none" /\ sftp = "up"
Request(op, h, off, n, data) ==
    [op |-> op, id |-> reqid, h |-> h, off |-> off, n |-> n, data |-> data]

\* requirev_start is set by the first of the timed waits.
StartsTimer(op) == timer' = IF op \in Timed /\ timer = "off" THEN "running" ELSE timer

\* A new request: its packet is made with the next id and written.
Issues(op, h, off, n) ==
    /\ reqid' = reqid + 1
    /\ IF Writable
         THEN /\ ChannelWrite(Request(op, h, off, n, <<>>), 1)
              /\ st' = [st EXCEPT ![op] = [@ EXCEPT !.at = "sent", !.id = reqid, !.h = h]]
              /\ run' = op
              /\ StartsTimer(op)
              /\ UNCHANGED <<app, conn>>
         ELSE /\ st' = [st EXCEPT ![op] = Idle]
              /\ app' = Failed(op)
              /\ run' = "none" /\ conn' = "disc"
              /\ UNCHANGED <<out, srv, timer>>
    /\ UNCHANGED <<sftp, version, packets, frame, wpacket, hs, in, avail, faults>>

\* A call of one that waits already; one that changes nothing but returns EAGAIN again is
\* left out.
Resumes(op) ==
    /\ Callable(op) /\ st[op].at = "sent"
    /\ avail > 0 \/ conn # "up" \/ timer = "expired" \/ Answers(op) # {}
       \/ (op \in Timed /\ timer = "off")
    /\ run' = op
    /\ StartsTimer(op)
    /\ UNCHANGED <<sftp, version, st, reqid, packets, frame, wpacket, hs, wire, srv, app, faults>>

\* An operation is started unless the end of the connection is known already.
Starts(op, requests) ==
    /\ Callable(op) /\ st[op].at = "idle" /\ conn \in {"up", "broken"}
    /\ reqid + requests <= MaxRequests /\ Cardinality(Under) < MaxPending
    /\ op \in Misc => reqid < MaxMisc \/ (op = "fstat" /\ reqid = MaxMisc)

\* The answer is there: the operation is over.
Finishes(op, failed) ==
    /\ st' = [st EXCEPT ![op] = Idle]
    /\ run' = "none"
    /\ failed => app' = Failed(op)
Ended == UNCHANGED <<sftp, version, reqid, frame, wpacket, wire, srv, faults>>

\* What sftp_unlink, _rename, _mkdir, _rmdir, _fstat, _stat and _symlink do alike: a
\* STATUS says whether it was done, an answer of another type is what was asked for.
Query(op, h) == Starts(op, 1) /\ Issues(op, h, 0, 0)
Answered(op) ==
    /\ run = op
    /\ \E i \in Answers(op) :
         /\ Takes(op, i)
         /\ LET failed == packets[i].type = "STATUS" /\ packets[i].code # "OK"
            IN  Finishes(op, failed) /\ (~failed => UNCHANGED app)
    /\ UNCHANGED hs /\ Ended

sftp_unlink == Query("unlink", "none") \/ Resumes("unlink") \/ Answered("unlink")
sftp_mkdir == Query("mkdir", "none") \/ Resumes("mkdir") \/ Answered("mkdir")
sftp_rmdir == Query("rmdir", "none") \/ Resumes("rmdir") \/ Answered("rmdir")
sftp_stat == Query("stat", "none") \/ Resumes("stat") \/ Answered("stat")
sftp_fstat ==
    \/ \E h \in {"r", "w"} : hs[h].open /\ Query("fstat", h)
    \/ Resumes("fstat") \/ Answered("fstat")

\* Versions of the protocol without renaming, or without symbolic links: no request
\* is made.
sftp_rename ==
    /\ version >= 2
    /\ (Query("rename", "none") \/ Resumes("rename") \/ Answered("rename"))
sftp_symlink ==
    /\ version >= 3
    /\ (Query("symlink", "none") \/ Resumes("symlink") \/ Answered("symlink"))

-----------------------------------------------------------------------------
(***************************************************************************)
(* Handles.                                                                *)
(***************************************************************************)
Closed == [open |-> FALSE, offset |-> 0, names |-> <<>>]
OfHandle(op, h) == st[op].at # "idle" /\ st[op].h = h

\* sftp_open: a STATUS is a failure, unless it is FX_OK and the HANDLE follows.
OpenEnds ==
    /\ run = "open"
    /\ \E i \in Answers("open") :
         /\ Takes("open", i)
         /\ CASE packets[i].type = "HANDLE" ->
                   /\ Finishes("open", FALSE)
                   /\ hs' = [hs EXCEPT ![st.open.h] = [Closed EXCEPT !.open = TRUE]]
                   /\ UNCHANGED app
              [] packets[i].type = "STATUS" /\ packets[i].code = "OK" ->
                   /\ st' = [st EXCEPT !.open.at = "handle"]
                   /\ UNCHANGED <<run, hs, app>>
              [] OTHER -> Finishes("open", TRUE) /\ UNCHANGED hs
    /\ Ended
sftp_open ==
    \/ \E h \in Handles :
         /\ ~hs[h].open /\ h \notin app.ended
         /\ Starts("open", 1) /\ Issues("open", h, 0, 0)
    \/ Resumes("open") \/ OpenEnds

\* sftp_close_handle: a handle goes away once the server says that it is closed.
CloseEnds ==
    /\ run = "close"
    /\ \E i \in Answers("close") :
         /\ Takes("close", i)
         /\ IF packets[i].code = "OK"
              THEN /\ Finishes("close", FALSE)
                   /\ hs' = [hs EXCEPT ![st.close.h] = Closed]
                   /\ app' = [app EXCEPT !.ended = @ \cup {st.close.h}]
              ELSE Finishes("close", TRUE) /\ UNCHANGED hs
    /\ Ended
sftp_close_handle ==
    \/ \E h \in Handles :
         /\ hs[h].open /\ \A op \in Ops : ~OfHandle(op, h)
         /\ Starts("close", 1) /\ Issues("close", h, 0, 0)
    \/ Resumes("close") \/ CloseEnds

-----------------------------------------------------------------------------
(***************************************************************************)
(* Reading and writing.                                                    *)
(***************************************************************************)
Told(field, s) == [app EXCEPT ![field] = @ \o s]

\* sftp_read: requests, one after the other, until the buffer is full or the file ends.
\* The offset of the handle is advanced by each answer.
MutantReadRequest ==
    Issues("read", "r", hs.r.offset - Len(st.read.buf), Min({ReadSize - Len(st.read.buf), ReadMax}))
ReadRequest == Issues("read", "r", hs.r.offset, Min({ReadSize - Len(st.read.buf), ReadMax}))
ReadGets ==
    /\ run = "read"
    /\ \E i \in Answers("read") :
         LET p == packets[i]
             buf == st.read.buf \o p.data
             full == Len(buf) >= ReadSize
         IN /\ Takes("read", i)
            /\ CASE p.type = "DATA" ->
                      /\ hs' = [hs EXCEPT !.r.offset = @ + Len(p.data)]
                      /\ IF full
                           THEN Finishes("read", FALSE) /\ app' = Told("got", buf)
                           ELSE /\ st' = [st EXCEPT !.read.at = "allocated", !.read.buf = buf]
                                /\ UNCHANGED <<run, app>>
                 [] p.type = "STATUS" /\ p.code = "EOF" ->
                      /\ Finishes("read", FALSE)
                      /\ app' = [Told("got", buf) EXCEPT
                                   !.ended = IF buf = <<>> THEN @ \cup {"end of r"} ELSE @]
                      /\ UNCHANGED hs
                 [] OTHER -> Finishes("read", TRUE) /\ UNCHANGED hs
    /\ Ended
sftp_read ==
    \/ hs.r.open /\ ~OfHandle("close", "r") /\ Starts("read", ReadSize) /\ ReadRequest
    \/ run = "read" /\ st.read.at = "allocated" /\ ReadRequest
    \/ Resumes("read") \/ ReadGets

\* sftp_readdir: names that are left of the last answer need no request.
MutantPopName(names) ==
    /\ hs' = [hs EXCEPT !.d.names = <<>>]
    /\ app' = Told("listed", <<Head(names)>>)
PopName(names) ==
    /\ hs' = [hs EXCEPT !.d.names = Tail(names)]
    /\ app' = Told("listed", <<Head(names)>>)
ReadsName ==
    /\ Callable("readdir") /\ st.readdir.at = "idle" /\ hs.d.names # <<>>
    /\ ~OfHandle("close", "d")
    /\ PopName(hs.d.names)
    /\ UNCHANGED <<sftp, version, st, reqid, run, packets, frame, timer, wpacket, wire, srv, faults>>
ReaddirGets ==
    /\ run = "readdir"
    /\ \E i \in Answers("readdir") :
         LET p == packets[i] IN
         /\ Takes("readdir", i)
         /\ Finishes("readdir", p.type = "STATUS" /\ p.code # "EOF")
         /\ CASE p.type = "NAME" -> PopName(p.data)
              [] p.type = "STATUS" /\ p.code = "EOF" ->
                   app' = [app EXCEPT !.ended = @ \cup {"end of d"}] /\ UNCHANGED hs
              [] OTHER -> UNCHANGED hs
    /\ Ended
sftp_readdir ==
    \/ ReadsName
    \/ /\ hs.d.open /\ hs.d.names = <<>> /\ ~OfHandle("close", "d")
       /\ Starts("readdir", 1) /\ Issues("readdir", "d", 0, 0)
    \/ Resumes("readdir") \/ ReaddirGets

\* The application uploads block by block: what it has to write next, and what it makes of
\* n bytes written, which are part of a block or all of it.
Upload == Blocks[app.block[1]]
Rest == SubSeq(Upload, app.block[2] + 1, Len(Upload))
Written(n) ==
    LET done == app.block[2] + n >= Len(Upload)
    IN  [Told("wrote", SubSeq(Upload, app.block[2] + 1, Min({app.block[2] + n, Len(Upload)})))
           EXCEPT !.block = IF done THEN <<@[1] + 1, 0>> ELSE <<@[1], @[2] + n>>]

\* sftp_write: the packet is made when idle.  When only a part of it could be sent, that
\* length is returned, and the packet and its state are kept for the next call.
WritePacket ==
    IF st.write.at = "idle" THEN Request("write", "w", hs.w.offset, 0, Rest) ELSE wpacket
WriteSends ==
    /\ Callable("write") /\ hs.w.open /\ ~OfHandle("close", "w") /\ app.block[1] <= Len(Blocks)
    /\ \/ Starts("write", 1) /\ reqid' = reqid + 1
       \/ st.write.at = "created" /\ UNCHANGED reqid
    /\ LET packet_len == 1 + Len(Rest)
           id == WritePacket.id
       IN IF ~Writable
            THEN /\ st' = [st EXCEPT !.write.at = "created", !.write.id = id, !.write.h = "w"]
                 /\ wpacket' = WritePacket /\ conn' = "disc"
                 /\ UNCHANGED <<run, out, srv, app>>
            ELSE /\ ChannelWrite(WritePacket, packet_len)
                 /\ IF packet_len <= ChunkMax
                      THEN /\ st' = [st EXCEPT !.write.at = "sent", !.write.id = id, !.write.h = "w"]
                           /\ wpacket' = NoPacket /\ run' = "write"
                           /\ UNCHANGED app
                      ELSE /\ st' = [st EXCEPT !.write.at = "created", !.write.id = id, !.write.h = "w"]
                           /\ wpacket' = WritePacket
                           /\ app' = Written(ChunkMax)
                           /\ UNCHANGED run
                 /\ UNCHANGED conn
    /\ UNCHANGED <<sftp, version, packets, frame, timer, hs, in, avail, faults>>

\* Its answer: the offset is advanced by the length of this call.
MutantWriteEnds ==
    /\ run = "write"
    /\ \E i \in Answers("write") :
         /\ Takes("write", i)
         /\ Finishes("write", FALSE)
         /\ hs' = [hs EXCEPT !.w.offset = @ + Len(Rest)]
         /\ app' = Written(Len(Rest))
    /\ Ended
WriteEnds ==
    /\ run = "write"
    /\ \E i \in Answers("write") :
         /\ Takes("write", i)
         /\ Finishes("write", packets[i].code # "OK")
         /\ IF packets[i].code = "OK"
              THEN /\ hs' = [hs EXCEPT !.w.offset = @ + Len(Rest)]
                   /\ app' = Written(Len(Rest))
              ELSE UNCHANGED hs
    /\ Ended
sftp_write == WriteSends \/ Resumes("write") \/ WriteEnds

-----------------------------------------------------------------------------
(***************************************************************************)
(* The server (external).  It may answer in any order what is not about    *)
(* the same file.                                                          *)
(***************************************************************************)
Serving == conn = "up" /\ sftp # "down"
Sends(s) ==
    in' = in \o FlattenSeq([k \in DOMAIN s |-> [i \in 1..ReplyUnits |-> <<s[k], i>>]])
Replies(s) ==
    /\ Sends(s)
    /\ \/ avail' = Len(in') /\ UNCHANGED faults
       \/ /\ faults < MaxFaults /\ faults' = faults + 1
          /\ avail' \in avail..Len(in') - 1

Turn(q) == q \in srv.pending /\ Serving /\ \A p \in srv.pending :
                                           p.h = q.h /\ q.h # "none" => p.id >= q.id
Served(q) == [srv EXCEPT !.pending = @ \ {q}]
Store(file, off, data) ==
    [i \in 1..Max({Len(file), off + Len(data)}) |->
       IF i > off /\ i <= off + Len(data) THEN data[i - off]
       ELSE IF i <= Len(file) THEN file[i] ELSE "hole"]

ServerAnswers(q) ==
    /\ Turn(q)
    /\ q.h = "none" \/ q.op = "open" \/ q.h \in srv.opened
    /\ CASE q.op = "init" ->
              /\ \E v \in Versions : Replies(<<Reply("VERSION", 0, v, <<>>)>>)
              /\ srv' = Served(q)
         [] q.op = "open" ->
              /\ \/ Replies(<<Reply("HANDLE", q.id, "OK", <<>>)>>)
                 \/ /\ faults < MaxFaults /\ faults' = faults + 1
                    /\ Sends(<<Reply("STATUS", q.id, "OK", <<>>), Reply("HANDLE", q.id, "OK", <<>>)>>)
                    /\ avail' = avail + ReplyUnits
              /\ srv' = [Served(q) EXCEPT !.opened = @ \cup {q.h},
                            !.file = IF q.h = "w" THEN <<>> ELSE @,
                            !.dirpos = IF q.h = "d" THEN 0 ELSE @]
         [] q.op = "read" ->
              /\ IF q.off >= Len(Content) THEN Replies(<<Reply("STATUS", q.id, "EOF", <<>>)>>)
                 ELSE \E n \in 1..Min({q.n, Len(Content) - q.off}) :
                        Replies(<<Reply("DATA", q.id, "OK", SubSeq(Content, q.off + 1, q.off + n))>>)
              /\ srv' = Served(q)
         [] q.op = "readdir" ->
              IF srv.dirpos = Len(Names)
                THEN Replies(<<Reply("STATUS", q.id, "EOF", <<>>)>>) /\ srv' = Served(q)
                ELSE \E n \in srv.dirpos + 1..Len(Names) :
                       /\ Replies(<<Reply("NAME", q.id, "OK", SubSeq(Names, srv.dirpos + 1, n))>>)
                       /\ srv' = [Served(q) EXCEPT !.dirpos = n]
         [] q.op = "write" ->
              /\ Replies(<<Reply("STATUS", q.id, "OK", <<>>)>>)
              /\ srv' = [Served(q) EXCEPT !.file = Store(@, q.off, q.data)]
         [] q.op = "close" ->
              /\ Replies(<<Reply("STATUS", q.id, "OK", <<>>)>>)
              /\ srv' = [Served(q) EXCEPT !.opened = @ \ {q.h}]
         [] q.op \in {"stat", "fstat"} ->
              Replies(<<Reply("ATTRS", q.id, "OK", <<>>)>>) /\ srv' = Served(q)
         [] q.op = "symlink" ->
              Replies(<<Reply("NAME", q.id, "OK", <<>>)>>) /\ srv' = Served(q)
         [] OTHER -> Replies(<<Reply("STATUS", q.id, "OK", <<>>)>>) /\ srv' = Served(q)
    /\ UNCHANGED <<client, out, conn, app>>

ServerRefuses(q) ==
    /\ Turn(q) /\ q.op # "init"
    /\ IF q.h = "none" \/ q.op = "open" \/ q.h \in srv.opened
         THEN faults < MaxFaults /\ faults' = faults + 1 ELSE UNCHANGED faults
    /\ Sends(<<Reply("STATUS", q.id, "FAILURE", <<>>)>>) /\ avail' = Len(in')
    /\ srv' = Served(q)
    /\ UNCHANGED <<client, out, conn, app>>

Arrives ==
    /\ avail < Len(in) /\ sftp # "down"
    /\ avail' = Len(in)
    /\ UNCHANGED <<client, out, in, conn, srv, app, faults>>

\* The server leaves, as it does when what it reads makes no request, or the connection
\* breaks.  What has not arrived is lost, and on a broken connection nothing is read.
ConnectionEnds ==
    /\ Serving /\ conn' \in {"eof", "broken"}
    /\ avail' = IF conn' = "eof" THEN avail ELSE 0
    /\ in' = SubSeq(in, 1, avail') /\ out' = <<>> /\ srv' = [srv EXCEPT !.pending = {}]
    /\ UNCHANGED <<client, app, faults>>

-----------------------------------------------------------------------------
Init ==
    /\ sftp = "none" /\ version = 0 /\ st = [op \in Ops |-> Idle] /\ reqid = 0 /\ run = "none"
    /\ packets = <<>> /\ frame = NoFrame /\ timer = "off" /\ wpacket = NoPacket
    /\ hs = [h \in Handles |-> Closed]
    /\ out = <<>> /\ in = <<>> /\ avail = 0 /\ conn = "up"
    /\ srv = [pending |-> {}, opened |-> {}, file |-> <<>>, dirpos |-> 0]
    /\ \E job \in Jobs : app = [got |-> <<>>, listed |-> <<>>, wrote |-> <<>>,
                                block |-> <<1, 0>>, ended |-> Handles \ job, lost |-> {}]
    /\ faults = 0

\* What the code does by itself once one of its functions was called.
Executes ==
    run # "none" /\
    (\/ sftp_init \/ InitEnds \/ Awaits \/ sftp_open \/ sftp_close_handle \/ sftp_read
     \/ sftp_readdir \/ sftp_write \/ sftp_fstat \/ sftp_stat \/ sftp_symlink \/ sftp_unlink
     \/ sftp_rename \/ sftp_mkdir \/ sftp_rmdir)

Next ==
    \/ sftp_init \/ InitEnds \/ Awaits \/ TimePasses \/ sftp_shutdown
    \/ sftp_open \/ sftp_close_handle \/ sftp_read \/ sftp_readdir \/ sftp_write
    \/ sftp_fstat \/ sftp_stat \/ sftp_symlink \/ sftp_unlink \/ sftp_rename
    \/ sftp_mkdir \/ sftp_rmdir
    \/ Arrives \/ ConnectionEnds
    \/ \E q \in srv.pending : ServerAnswers(q) \/ ServerRefuses(q)

Spec == Init /\ [][Next]_vars /\ WF_vars(Executes)

-----------------------------------------------------------------------------
(***************************************************************************)
(* Properties.                                                             *)
(***************************************************************************)
\* What reads of a file returned is its beginning, without a gap and in order, whatever
\* other operations are under way, however late their answers come and in whatever pieces;
\* and when a read returns zero it is all of it (sftp_read); also when a read that failed
\* is tried again, unless it had filled a part of the buffer before it failed: the offset
\* is past that part then.
DownloadIsExact ==
    "read" \notin app.lost
    => /\ IsPrefix(app.got, Content)
       /\ "end of r" \in app.ended => app.got = Content

\* The same of a directory, until a readdir fails: every name once, and all of them when
\* one returns zero.
ListingIsExact ==
    "readdir" \notin app.lost
    => /\ IsPrefix(app.listed, Names)
       /\ "end of d" \in app.ended => app.listed = Names

\* What sftp_write returned as written is in the file, in its place.
WrittenIsStored == IsPrefix(app.wrote, srv.file)

\* When every block was written, on a connection that never failed, and the server has
\* answered all it got, the file is what was uploaded (sftp_write, "Returns the number of
\* bytes written").
UploadIsStored ==
    app.block[1] > Len(Blocks) /\ conn = "up" /\ sftp = "up" /\ srv.pending = {}
    => IsPrefix(app.wrote, srv.file)

\* A call returns, with EAGAIN if need be, unless the server closed the channel in the
\* middle of a reply: the loop of sftp_packet_read takes no end of file for an answer.
CallReturns == run # "none" ~> run = "none" \/ (conn = "eof" /\ frame # NoFrame)
=============================================================================
