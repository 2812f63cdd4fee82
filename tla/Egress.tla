------------------------------- MODULE Egress -------------------------------
(***************************************************************************)
(* One collection of the egress table: get_egress_topology of              *)
(* monitors/network_topology.rs, with its reader for each platform.        *)
(*                                                                         *)
(* Nothing holds the host still while it is read.  The Linux reader takes  *)
(* the socket tables, the descriptors of every process, the byte counters  *)
(* of ss, the names, the prefix table and the totals of the eBPF probe one *)
(* after the other and joins them by inode, by process id and by the pair  *)
(* of endpoints; each of these can meanwhile come to name something else.  *)
(*                                                                         *)
(* A counter is modelled by whose it is: "sent" is the socket whose bytes  *)
(* the row shows, "process" the process whose name, "total" the process    *)
(* whose total; "of" and "by" record the socket a row was made from and   *)
(* the table that classified it.                                           *)
(***************************************************************************)
EXTENDS CloudRanges, FiniteSets, SequencesExt

CONSTANTS
  Sockets, Processes,   \* all there will ever be: a closed one is not reopened
  EndsOf,               \* external: the two endpoints of a socket ...
  PeerOf,               \* ... and the remote address
  InodeOf,              \* external: its inode while it is open
  HoldersOf,            \* external: the processes that share it
  PidOf,                \* external: a process's id, 1..LastPid
  LastPid,
  Hidden,               \* external: processes of other users
  Silent,               \* external: sockets that have sent nothing so far
  Churning,             \* bound: what opens and closes, starts and ends by itself
  V6, Udp,              \* external: the sockets of the second table; of UDP
  NONE

ASSUME HostsAssumption ==
  /\ IsFiniteSet(Sockets) /\ V6 \subseteq Sockets /\ Udp \subseteq Sockets /\ Silent \subseteq Sockets
  /\ DOMAIN EndsOf = Sockets /\ DOMAIN InodeOf = Sockets /\ PeerOf \in [Sockets -> Addresses]
  /\ HoldersOf \in [Sockets -> SUBSET Processes]
  /\ LastPid \in Nat /\ PidOf \in [Processes -> 1..LastPid]
ASSUME NothingIsNone ==
  /\ NONE \notin Sockets \union Processes \union Nat
  /\ NONE \notin Providers \union {"fallback", "live", "free", "CLOSE_WAIT"}
  /\ \A s \in Sockets : EndsOf[s] # NONE

VARIABLES
  status, alive,        \* external: the sockets and the processes
  platform,             \* which reader the program was built with
  pc, rows,             \* the collection: where it is, and its rows so far
  next,                 \* the next process id whose descriptors are read
  owner, bytes,         \* inode_to_pid and ss_bytes
  flag,                 \* the answer of is_fallback
  failed,               \* history: what could not be read in this collection ...
  changed               \* ... and what opened, closed, started or ended during it

host == <<status, alive>>
reader == <<platform, pc, rows, next, owner, bytes, flag, failed>>
vars == <<cloud, host, reader, changed>>

InUse(s) == status[s] \in {"established", "closing"}
Running(p) == alive[p] = "running"
Holders(s) == {p \in HoldersOf[s] : Running(p)}
Egress(s) == ~IsLocal(PeerOf[s])

Row(s, pid, process) ==
  [of |-> s, pid |-> pid, process |-> process, sent |-> NONE, total |-> NONE,
   provider |-> NONE, by |-> NONE, confidence |-> NONE, cost |-> NONE, shadow |-> FALSE]

Connections ==
  [of : Sockets, pid : 1..LastPid \union {NONE}, process : Processes \union {NONE},
   sent : Sockets \union {NONE}, total : Processes \union {NONE},
   provider : Providers \union {NONE}, by : {"fallback", "live", NONE},
   confidence : {"fallback", "live", NONE}, cost : Sockets \union {"free", NONE},
   shadow : BOOLEAN]

TypeOK ==
  /\ CloudTypeOK
  /\ status \in [Sockets -> {"new", "established", "closing", "closed"}]
  /\ alive \in [Processes -> {"new", "running", "gone"}]
  /\ platform \in {"linux", "macos", "windows"}
  /\ pc \in {"idle", "tcp6", "fds", "ss", "flag", "join", "probe", "name", "classify", "label", "done"}
  /\ rows \in Seq(Connections)
  /\ next \in 1..LastPid + 1 /\ flag \in BOOLEAN
  /\ failed \subseteq {"tcp", "tcp6", "proc", "ss", "lsof"}
  /\ changed \subseteq Sockets \union Processes

Init ==
  /\ CloudInit
  /\ status = [s \in Sockets |-> IF s \in Churning THEN "new" ELSE "established"]
  /\ alive \in [Processes -> {"new", "running"}]
  /\ \A p \in Processes \ Churning : Running(p)
  /\ \A s \in Sockets : InUse(s) => \A p \in HoldersOf[s] : Running(p)
  /\ \A p, q \in Processes : p # q /\ Running(p) /\ Running(q) => PidOf[p] # PidOf[q]
  /\ \A s, t \in Sockets : s # t /\ InUse(s) /\ InUse(t) =>
       EndsOf[s] # EndsOf[t] /\ InodeOf[s] # InodeOf[t]
  /\ platform \in {"linux", "macos", "windows"}
  /\ pc = "idle" /\ rows = <<>> /\ next = 1
  /\ owner = <<>> /\ bytes = <<>> /\ flag = TRUE /\ failed = {} /\ changed = {}

-----------------------------------------------------------------------------
(* The host.                                                               *)
Note(S) == changed' = IF pc = "idle" THEN {} ELSE changed \union S

Open(s) ==
  /\ status[s] = "new" /\ \A p \in HoldersOf[s] : Running(p)
  /\ \A t \in Sockets : InUse(t) => EndsOf[t] # EndsOf[s] /\ InodeOf[t] # InodeOf[s]
  /\ status' = [status EXCEPT ![s] = "established"]
  /\ Note({s})
  /\ UNCHANGED <<cloud, alive, reader>>

PeerCloses(s) ==
  /\ s \notin Udp /\ status[s] = "established"
  /\ status' = [status EXCEPT ![s] = "closing"]
  /\ Note({s})
  /\ UNCHANGED <<cloud, alive, reader>>

Close(s) ==
  /\ InUse(s)
  /\ status' = [status EXCEPT ![s] = "closed"]
  /\ Note({s})
  /\ UNCHANGED <<cloud, alive, reader>>

Start(p) ==
  /\ alive[p] = "new" /\ \A q \in Processes : Running(q) => PidOf[q] # PidOf[p]
  /\ alive' = [alive EXCEPT ![p] = "running"]
  /\ Note({p})
  /\ UNCHANGED <<cloud, status, reader>>

Exit(p) ==
  /\ Running(p)
  /\ alive' = [alive EXCEPT ![p] = "gone"]
  /\ LET last == {s \in Sockets : InUse(s) /\ Holders(s) = {p}} IN
       /\ status' = [s \in Sockets |-> IF s \in last THEN "closed" ELSE status[s]]
       /\ Note(last \union {p})
  /\ UNCHANGED <<cloud, reader>>

-----------------------------------------------------------------------------
(* The Linux reader.                                                       *)
One(S) == IF S = {} THEN NONE ELSE CHOOSE x \in S : TRUE
Step(from, to) == pc = from /\ pc' = to
Rows(S) == LET order == SetToSeq(S) IN [i \in DOMAIN order |-> Row(order[i], NONE, NONE)]

(* parse_proc_net_tcp: established, and not to this host or its network.   *)
(* A table, the process list or ss may not be readable: the collection goes*)
(* on without it.                                                          *)
Established(family) ==
  {s \in family \ Udp : status[s] = "established" /\ Egress(s)}

ReadTcp ==
  /\ platform = "linux" /\ Step("idle", "tcp6")
  /\ \/ rows' = Rows(Established(Sockets \ V6)) /\ failed' = {}
     \/ rows' = <<>> /\ failed' = {"tcp"}
  /\ changed' = {}
  /\ UNCHANGED <<cloud, host, platform, next, owner, bytes, flag>>

ReadTcp6 ==
  /\ platform = "linux"
  /\ \/ rows' = rows \o Rows(Established(V6)) /\ UNCHANGED failed
     \/ UNCHANGED rows /\ failed' = failed \union {"tcp6"}
  /\ Step("tcp6", IF rows' = <<>> THEN "done" ELSE "fds")
  /\ UNCHANGED <<cloud, host, platform, next, owner, bytes, flag, changed>>

(* build_inode_pid_map: the first process that holds an inode keeps it, a  *)
(* process whose descriptors cannot be listed is skipped.                  *)
Listed(pid) == {p \in Processes : PidOf[p] = pid /\ Running(p) /\ p \notin Hidden}
Held(P) == {InodeOf[s] : s \in {t \in Sockets : InUse(t) /\ Holders(t) \intersect P # {}}}

Merged(f, g) ==
  [n \in DOMAIN f \union DOMAIN g |-> IF n \in DOMAIN f THEN f[n] ELSE g[n]]

\* Mutant of ScanFds: a process that cannot be listed ends the scan.
ScanFdsUntilRefused ==
  /\ next <= LastPid /\ Step("fds", "fds")
  /\ owner' = Merged(owner, [n \in Held(Listed(next)) |-> next])
  /\ next' = IF Listed(next) = {} THEN LastPid + 1 ELSE next + 1
  /\ UNCHANGED <<cloud, host, platform, rows, bytes, flag, failed, changed>>

ScanFds ==
  /\ next <= LastPid /\ Step("fds", "fds")
  /\ owner' = Merged(owner, [n \in Held(Listed(next)) |-> next])
  /\ next' = next + 1
  /\ UNCHANGED <<cloud, host, platform, rows, bytes, flag, failed, changed>>

ProcUnreadable ==
  /\ next = 1 /\ Step("fds", "ss")
  /\ failed' = failed \union {"proc"}
  /\ UNCHANGED <<cloud, host, platform, rows, next, owner, bytes, flag, changed>>

EndScan ==
  /\ next > LastPid /\ Step("fds", "ss") /\ next' = 1
  /\ UNCHANGED <<cloud, host, platform, rows, owner, bytes, flag, failed, changed>>

(* ss: a header per socket, its counters on the same line or on an         *)
(* indented one below, and no count of zero; parse_ss_output joins them by *)
(* both endpoints.                                                         *)
\* Mutant of SsKey: sockets to one peer share an entry.
SsKeyOfPeer(s) == PeerOf[s]
SsKey(s) == EndsOf[s]
SsLine(kind, key, sent) == [kind |-> kind, key |-> key, sent |-> sent]
Sent(s) == IF s \in Silent THEN NONE ELSE s
InlineText(tcp) == [i \in DOMAIN tcp |-> SsLine("header", SsKey(tcp[i]), Sent(tcp[i]))]
WrappedText(tcp) ==
  [i \in 1..(2 * Len(tcp)) |->
     LET s == tcp[(i + 1) \div 2] IN
     IF i % 2 = 1 THEN SsLine("header", SsKey(s), NONE) ELSE SsLine("info", NONE, Sent(s))]
SsText(inline) ==
  LET tcp == SetToSeq({s \in Sockets \ Udp : InUse(s)})
  IN IF inline THEN InlineText(tcp) ELSE WrappedText(tcp)

\* The header above a line gives it its key; the last count of a key stays.
Headers(text, i) == {h \in 1..i : text[h].kind = "header" /\ \A k \in (h + 1)..i : text[k].kind = "info"}
KeyAt(text, i) == One({text[h].key : h \in Headers(text, i)})
Counted(text) == {i \in DOMAIN text : KeyAt(text, i) # NONE /\ text[i].sent # NONE}
ParseSs(text) ==
  [key \in {KeyAt(text, i) : i \in Counted(text)} |->
     LET counted == {i \in Counted(text) : KeyAt(text, i) = key}
     IN text[CHOOSE i \in counted : \A j \in counted : j <= i].sent]

RunSs ==
  /\ Step("ss", "flag")
  /\ \/ bytes' \in {ParseSs(SsText(TRUE)), ParseSs(SsText(FALSE))} /\ UNCHANGED failed
     \/ bytes' = <<>> /\ failed' = failed \union {"ss"}
  /\ UNCHANGED <<cloud, host, platform, rows, next, owner, flag, changed>>

ReadFlag ==
  /\ Step("flag", "join")
  /\ table' = Initialized /\ flag' = (Initialized.source = "fallback")
  /\ UNCHANGED <<fetch, published, network, host, platform, rows, next, owner, bytes, failed, changed>>

(* The rows, one after the other: the owner by inode, its name, the bytes, *)
(* and the class.                                                          *)
Pending(S) == {i \in DOMAIN rows : rows[i].provider \in S}
First(S) == CHOOSE i \in S : \A j \in S : i <= j
NameOf(pid) == {p \in Processes : PidOf[p] = pid /\ Running(p)}
Source(fallback) == IF fallback THEN "fallback" ELSE "live"
Cost(sent, provider) ==
  IF sent # NONE /\ provider \in Metered THEN sent
  ELSE IF IsMesh(provider) THEN "free" ELSE NONE

\* Mutant of OwnerOf: an inode nobody was seen to hold belongs to process 0.
OwnerOrZero(s) == IF InodeOf[s] \in DOMAIN owner THEN owner[InodeOf[s]] ELSE 0
OwnerOf(s) == IF InodeOf[s] \in DOMAIN owner THEN owner[InodeOf[s]] ELSE NONE

JoinRow ==
  /\ pc = "join" /\ Pending({NONE}) # {}
  /\ LET i == First(Pending({NONE}))
         s == rows[i].of
         pid == OwnerOf(s)
         sent == IF SsKey(s) \in DOMAIN bytes THEN bytes[SsKey(s)] ELSE NONE
         class == Classify(PeerOf[s])
     IN rows' = [rows EXCEPT ![i] = [Row(s, pid, One(NameOf(pid))) EXCEPT
                   !.sent = sent, !.provider = class.provider, !.by = Initialized.source,
                   !.confidence = Source(flag), !.cost = Cost(sent, class.provider),
                   !.shadow = (pid = NONE /\ class.provider \in Metered)]]
  /\ table' = Initialized
  /\ UNCHANGED <<fetch, published, network, host, platform, pc, next, owner, bytes, flag, failed, changed>>

\* Mutant of Annotate: the confidence is read again for the finished rows.
AnnotateAndRelabel ==
  /\ Pending({NONE}) = {} /\ Step("join", "done")
  /\ rows' = [i \in DOMAIN rows |-> [rows[i] EXCEPT !.confidence = Source(table.source = "fallback")]]
  /\ UNCHANGED <<cloud, host, platform, next, owner, bytes, flag, failed, changed>>

(* The totals of the eBPF probe, when it runs.  An entry is taken here for *)
(* the process that has its id now; EgressProbe has what it may inherit.   *)
Annotate ==
  /\ Pending({NONE}) = {} /\ Step("join", "done")
  /\ \/ UNCHANGED rows
     \/ rows' = [i \in DOMAIN rows |-> [rows[i] EXCEPT !.total = One(NameOf(rows[i].pid))]]
  /\ UNCHANGED <<cloud, host, platform, next, owner, bytes, flag, failed, changed>>

-----------------------------------------------------------------------------
(* The macOS reader: lsof's fields, one per line; the processes and the    *)
(* sockets of each come in some order, on which nothing depends.           *)
Field(tag, value) == [tag |-> tag, value |-> value]
LsofSocket(s) ==
  <<Field("f", NONE), Field("P", IF s \in Udp THEN "UDP" ELSE "TCP"), Field("n", s)>>
    \o IF s \in Udp THEN <<>>
       ELSE <<Field("T", IF status[s] = "established" THEN "ESTABLISHED" ELSE "CLOSE_WAIT")>>
Listener == <<Field("f", NONE), Field("P", "TCP"), Field("n", NONE), Field("T", "LISTEN")>>
LsofProcess(p) ==
  LET held == SetToSeq({s \in Sockets : InUse(s) /\ p \in Holders(s)})
  IN <<Field("p", PidOf[p]), Field("c", p)>> \o Listener
       \o FlattenSeq([i \in DOMAIN held |-> LsofSocket(held[i])])
LsofText ==
  LET visible == SetToSeq({p \in Processes : Running(p) /\ p \notin Hidden})
  IN FlattenSeq([i \in DOMAIN visible |-> LsofProcess(visible[i])])

(* parse_lsof: the fields are kept until the socket or the process ends.   *)
Cleared(pid, cmd, open, out) ==
  [pid |-> pid, cmd |-> cmd, open |-> open, proto |-> NONE, name |-> NONE, state |-> NONE, out |-> out]
\* Mutant of Flush: the state of a connection is not looked at.
FlushAnyState(acc) ==
  IF acc.open /\ acc.name # NONE /\ Egress(acc.name)
  THEN Append(acc.out, Row(acc.name, acc.pid, acc.cmd)) ELSE acc.out
Flush(acc) ==
  IF /\ acc.open /\ acc.name # NONE
     /\ ~(acc.proto = "TCP" /\ acc.state \notin {NONE, "ESTABLISHED"})
     /\ Egress(acc.name)
  THEN Append(acc.out, Row(acc.name, acc.pid, acc.cmd)) ELSE acc.out
\* Mutant of ReadField: a new process does not end the last socket.
ReadFieldLosingLast(acc, line) ==
  CASE line.tag = "p" -> Cleared(line.value, NONE, FALSE, acc.out)
    [] line.tag = "f" -> Cleared(acc.pid, acc.cmd, TRUE, Flush(acc))
    [] line.tag = "c" -> [acc EXCEPT !.cmd = line.value]
    [] line.tag = "P" -> [acc EXCEPT !.proto = line.value]
    [] line.tag = "n" -> [acc EXCEPT !.name = line.value]
    [] OTHER -> [acc EXCEPT !.state = line.value]
ReadField(acc, line) ==
  CASE line.tag = "p" -> Cleared(line.value, NONE, FALSE, Flush(acc))
    [] line.tag = "f" -> Cleared(acc.pid, acc.cmd, TRUE, Flush(acc))
    [] line.tag = "c" -> [acc EXCEPT !.cmd = line.value]
    [] line.tag = "P" -> [acc EXCEPT !.proto = line.value]
    [] line.tag = "n" -> [acc EXCEPT !.name = line.value]
    [] OTHER -> [acc EXCEPT !.state = line.value]
ParseLsof(text) == Flush(FoldLeft(ReadField, Cleared(NONE, NONE, FALSE, <<>>), text))

RunLsof ==
  /\ platform = "macos" /\ Step("idle", "classify")
  /\ \/ rows' = ParseLsof(LsofText) /\ failed' = {}
     \/ rows' = <<>> /\ failed' = {"lsof"}
  /\ changed' = {}
  /\ UNCHANGED <<cloud, host, platform, next, owner, bytes, flag>>

-----------------------------------------------------------------------------
(* The Windows reader: one table per family, each asked for its size and   *)
(* then for its rows, and none of them if it has grown in between.         *)
OwnerRows(family) ==
  LET order == SetToSeq(Established(family)) IN
    [i \in DOMAIN order |-> Row(order[i], One({PidOf[p] : p \in Holders(order[i])}), NONE)]

ReadTable ==
  /\ platform = "windows" /\ Step("idle", "tcp6")
  /\ \/ rows' = OwnerRows(Sockets \ V6) /\ failed' = {}
     \/ rows' = <<>> /\ failed' = {"tcp"}
  /\ changed' = {}
  /\ UNCHANGED <<cloud, host, platform, next, owner, bytes, flag>>

ReadTable6 ==
  /\ platform = "windows" /\ Step("tcp6", "name")
  /\ \/ rows' = rows \o OwnerRows(V6) /\ UNCHANGED failed
     \/ UNCHANGED rows /\ failed' = failed \union {"tcp6"}
  /\ UNCHANGED <<cloud, host, platform, next, owner, bytes, flag, changed>>

(* pid_to_name, once per process id.                                       *)
NameRow ==
  /\ Pending({NONE}) # {} /\ Step("name", "classify")
  /\ LET i == First(Pending({NONE}))
         earlier == {j \in 1..(i - 1) : rows[j].pid = rows[i].pid}
     IN rows' = [rows EXCEPT ![i].process =
                   IF earlier # {} THEN rows[First(earlier)].process
                   ELSE One(NameOf(rows[i].pid) \ Hidden)]
  /\ UNCHANGED <<cloud, host, platform, next, owner, bytes, flag, failed, changed>>

-----------------------------------------------------------------------------
(* conn_json, for both: the class first, the confidence after it.          *)
ClassifyRow ==
  /\ Pending({NONE}) # {} /\ Step("classify", "label")
  /\ LET i == First(Pending({NONE}))
         class == Classify(PeerOf[rows[i].of])
     IN rows' = [rows EXCEPT ![i] = [@ EXCEPT
                   !.provider = class.provider, !.by = Initialized.source,
                   !.cost = Cost(NONE, class.provider),
                   !.shadow = (rows[i].pid = NONE /\ class.provider \in Metered)]]
  /\ table' = Initialized
  /\ UNCHANGED <<fetch, published, network, host, platform, next, owner, bytes, flag, failed, changed>>

LabelRow ==
  /\ Step("label", IF platform = "windows" THEN "name" ELSE "classify")
  /\ LET i == First({j \in DOMAIN rows : rows[j].confidence = NONE}) IN
       rows' = [rows EXCEPT ![i].confidence = Source(Initialized.source = "fallback")]
  /\ table' = Initialized
  /\ UNCHANGED <<fetch, published, network, host, platform, next, owner, bytes, flag, failed, changed>>

EndRows ==
  /\ pc \in {"name", "classify"} /\ Pending({NONE}) = {}
  /\ pc' = "done"
  /\ UNCHANGED <<cloud, host, platform, rows, next, owner, bytes, flag, failed, changed>>

Return ==
  /\ Step("done", "idle")
  /\ rows' = <<>> /\ owner' = <<>> /\ bytes' = <<>> /\ flag' = TRUE
  /\ failed' = {} /\ changed' = {}
  /\ UNCHANGED <<cloud, host, platform, next>>

-----------------------------------------------------------------------------
HostNext ==
  \/ \E s \in Sockets \intersect Churning : Open(s) \/ PeerCloses(s) \/ Close(s)
  \/ \E p \in Processes \intersect Churning : Start(p) \/ Exit(p)

LinuxNext ==
  ReadTcp \/ ReadTcp6 \/ ScanFds \/ ProcUnreadable \/ EndScan \/ RunSs \/ ReadFlag \/ JoinRow \/ Annotate
OtherNext == RunLsof \/ ReadTable \/ ReadTable6 \/ NameRow \/ ClassifyRow \/ LabelRow \/ EndRows

Next == HostNext \/ LinuxNext \/ OtherNext \/ Return \/ (RefreshStep /\ UNCHANGED <<host, reader, changed>>)

Spec == Init /\ [][Next]_vars

-----------------------------------------------------------------------------
Finished == {i \in DOMAIN rows : rows[i].provider # NONE}
Reused(f, x) == \E t \in changed \intersect DOMAIN f : t # x /\ f[t] = f[x]

(* What a row says is true of the socket it was made from, although inode, *)
(* process and counters were looked up later: the bytes are that socket's, *)
(* the process id is that of one of its holders, the name is that holder's *)
(* and the total is read under its id, unless the endpoints, the inode or  *)
(* the process id came to name another during this collection.             *)
RowsDescribeTheirSocket ==
  \A i \in Finished :
    LET r == rows[i] IN
    /\ r.sent \in {NONE, r.of} \/ Reused(EndsOf, r.of)
    /\ \/ r.pid = NONE \/ r.pid \in {PidOf[p] : p \in HoldersOf[r.of]}
       \/ Reused(InodeOf, r.of)
    /\ \A p \in {r.process, r.total} \ {NONE} :
         /\ PidOf[p] = r.pid
         /\ p \in HoldersOf[r.of] \/ Reused(InodeOf, r.of) \/ p \in changed

(* A connection that stands throughout the collection is missing only if   *)
(* the table it would be read from was: it has a row, with a process id    *)
(* exactly if a process whose descriptors can be read held it all along,   *)
(* unless no descriptor could be, and with its own bytes when ss answered  *)
(* and there were any.  (Windows tells the process id of every holder.)    *)
Standing(s) == status[s] = "established" /\ s \notin changed /\ Egress(s)
Visible(s) == Holders(s) \ (Hidden \union changed)
Covered(s) ==
  IF platform = "macos" THEN "lsof" \notin failed /\ Visible(s) # {}
  ELSE s \notin Udp /\ (IF s \in V6 THEN "tcp6" ELSE "tcp") \notin failed
StandingSocketsAreListed ==
  pc = "done" =>
    \A s \in Sockets :
      Standing(s) /\ Covered(s) =>
        \E i \in DOMAIN rows :
          /\ rows[i].of = s
          /\ Visible(s) # {} /\ "proc" \notin failed => rows[i].pid # NONE
          /\ platform # "windows" /\ HoldersOf[s] \subseteq Hidden =>
               rows[i].pid = NONE \/ Reused(InodeOf, s)
          /\ platform = "linux" /\ "ss" \notin failed /\ s \notin Silent => rows[i].sent = s

(* No connection that has ended is shown as established traffic: a row is  *)
(* for a socket that was established when the collection began or changed  *)
(* during it, towards a host that is not local whatever the form of its    *)
(* address; mesh peers are kept and are shown as mesh.                     *)
OnlyEgressIsListed ==
  \A i \in DOMAIN rows :
    LET peer == PeerOf[rows[i].of] IN
    /\ status[rows[i].of] = "established" \/ rows[i].of \in changed
    /\ peer.host \notin LocalHosts
    /\ i \in Finished => (rows[i].provider = "Tailscale" <=> peer.host \in SharedHosts)

(* A shadow alert (a metered peer without a process) is never raised for a *)
(* connection of a process that could be seen: those that hold it are      *)
(* hidden, or it or a holder began or ended while the table was made, or   *)
(* no descriptor could be read at all.                                     *)
ShadowAlertHasCause ==
  \A i \in Finished : rows[i].shadow =>
    \/ Holders(rows[i].of) \subseteq Hidden \/ "proc" \in failed
    \/ ({rows[i].of} \union HoldersOf[rows[i].of]) \intersect changed # {}

(* On Linux a row that claims live attribution was classified with a live  *)
(* table, however the background refresh falls between the rows: the flag  *)
(* is read before them, and a live table is never replaced by the          *)
(* hardcoded one.                                                          *)
LiveLabelIsEarned ==
  \A i \in Finished :
    platform = "linux" /\ rows[i].confidence = "live" => rows[i].by = "live"

=============================================================================
