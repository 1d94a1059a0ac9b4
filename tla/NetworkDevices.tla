---------------------------- MODULE NetworkDevices --------------------------
(***************************************************************************)
(* Agentless network devices (networkdevices): the device table, commands  *)
(* and inventory scans over SSH, and the enrichment over NETCONF and SNMP. *)
(*                                                                         *)
(* Every request reads the device once and works on that copy.  The        *)
(* NETCONF client is modelled with its goroutines: an RPC is a goroutine   *)
(* that sends and then reads the next message of the session, whatever     *)
(* that is; the caller stops waiting for it after a timeout and goes on to *)
(* the next RPC of the same session.  Times are in half seconds and        *)
(* compared as RFC 3339 text.                                              *)
(***************************************************************************)
EXTENDS Naturals, FiniteSets, Sequences

CONSTANTS
    Ids,        \* device ids (uuids)
    Writes,     \* bodies of create and update: [host, mode], "" for absent
    Callers,    \* one request each
    Asks,       \* requests about a device
    Keys,       \* the commands of a scan
    MaxTime

VARIABLES
    now,
    devices,    \* id -> NoDevice, Deleted or [host, mode]
    scans,      \* rows of network_device_inventory
    enriched,   \* rows of network_device_enriched
    jobs,       \* caller -> its request
    conn        \* caller -> its NETCONF session

networkVars == <<now, devices, scans, enriched, jobs, conn>>

NoDevice == [host |-> "", mode |-> ""]
Deleted == [host |-> "", mode |-> "deleted"]
RPCs == {"config", "state"}
NoConn == [wire |-> <<>>, asked |-> <<>>, alive |-> FALSE,
           go |-> [r \in RPCs |-> "none"], box |-> [r \in RPCs |-> ""]]
IdleJob == [step |-> "idle", ask |-> [kind |-> "none"], id |-> "", dev |-> NoDevice, at |-> 0,
            todo |-> {}, errs |-> {}, got |-> <<>>]

\* Within one second "05.5Z" comes before "05Z" in the stored text.
TextKey(t) == 2 * (t \div 2) + (IF t % 2 = 1 THEN 0 ELSE 1)

\* GetLatestInventory and GetEnrichedInventory: ORDER BY collected_at DESC
\* LIMIT 1; rows with the same time are all candidates.
Latest(rows, id) ==
    {r \in rows : r.id = id /\ \A s \in rows : s.id = id => TextKey(s.at) <= TextKey(r.at)}

\* Store.GetDevice: the row, if there is one.
GetDevice(id) == {devices[id]} \ {NoDevice, Deleted}

Done(c) == jobs' = [jobs EXCEPT ![c].step = "done"]

(***************************************************************************)
(* The device table                                                        *)
(***************************************************************************)
\* normalizeAuthMode.
AuthMode(mode) == IF mode = "" THEN "password" ELSE mode

\* validateWriteRequest with required fields, then Store.CreateDevice.
CreateDevice(id, w) ==
    /\ devices[id] = NoDevice
    /\ w.host # ""
    /\ devices' = [devices EXCEPT ![id] = [w EXCEPT !.mode = AuthMode(w.mode)]]
    /\ UNCHANGED <<now, scans, enriched, jobs, conn>>

\* DeleteDevice leaves the inventories; a handler asks for the device first.
DeleteDevice(id) ==
    /\ GetDevice(id) # {}
    /\ devices' = [devices EXCEPT ![id] = Deleted]
    /\ UNCHANGED <<now, scans, enriched, jobs, conn>>

\* UpdateDevice's merge: an absent field keeps the value that was read.
Merge(old, w) == [f \in DOMAIN old |-> IF w[f] = "" THEN old[f] ELSE w[f]]

\* The UPDATE of all fields; no row, no device.
UpdateDevice(c) ==
    /\ jobs[c].step = "read" /\ jobs[c].ask.kind = "update"
    /\ devices' = [devices EXCEPT ![jobs[c].id] =
                      IF @ = Deleted THEN @ ELSE Merge(jobs[c].dev, jobs[c].ask.body)]
    /\ Done(c)
    /\ UNCHANGED <<now, scans, enriched, conn>>

\* The first lines of every handler with a device id.
Begin(c, id, ask) ==
    /\ jobs[c].step = "idle"
    /\ \E d \in GetDevice(id) :
           jobs' = [jobs EXCEPT ![c] = [IdleJob EXCEPT !.step = "read", !.ask = ask, !.id = id, !.dev = d]]
    /\ UNCHANGED <<now, devices, scans, enriched, conn>>

(***************************************************************************)
(* SSH: commands, scans and inventories                                    *)
(***************************************************************************)
\* resolveCredentials: nothing is ever stored, so the inline ones remain.
ResolveCredentials(ask) == ask.creds

\* buildSSHClientConfig: some authentication method is there.
UsableSSH(dev, creds) == creds \/ dev.mode = "agent"

\* SSHExecutor.Execute: the result of one command; every command dials anew.
Execute(dev, ask) ==
    {"fail"} \cup (IF UsableSSH(dev, ResolveCredentials(ask)) THEN {"error", "text", "blank"} ELSE {})

HandleCommandDevice(c) ==
    /\ jobs[c].step = "read" /\ jobs[c].ask.kind = "command"
    /\ \E out \in Execute(jobs[c].dev, jobs[c].ask) :
           jobs' = [jobs EXCEPT ![c].step = "done", ![c].got = <<out>>]
    /\ UNCHANGED <<now, devices, scans, enriched, conn>>

\* Scanner.Scan stamps the result before the first command; Prober.Inventory
\* dials first, once, and fails if it cannot.
StartScan(c) ==
    /\ jobs[c].step = "read" /\ jobs[c].ask.kind \in {"scan", "inventory"}
    /\ \E reached \in BOOLEAN :
           /\ jobs[c].ask.kind = "scan" => reached
           /\ jobs[c].ask.kind = "inventory" /\ reached => UsableSSH(jobs[c].dev, jobs[c].ask.creds)
           /\ jobs' = [jobs EXCEPT ![c].step = IF reached THEN "scan" ELSE "done",
                                   ![c].at = now, ![c].todo = IF reached THEN Keys ELSE {},
                                   ![c].got = [k \in Keys |-> ""]]
    /\ UNCHANGED <<now, devices, scans, enriched, conn>>

\* The outcomes of one command of the loop.
ScanOutcomes(j) ==
    IF j.ask.kind = "scan" THEN Execute(j.dev, j.ask) ELSE {"error", "text", "blank"}

\* One turn of the loop over the vendor's commands, in any order.
ScanCommand(c, k) ==
    /\ jobs[c].step = "scan" /\ k \in jobs[c].todo
    /\ \E out \in ScanOutcomes(jobs[c]) :
           jobs' = [jobs EXCEPT ![c].todo = @ \ {k},
                                ![c].errs = IF out \in {"fail", "error"} THEN @ \cup {k} ELSE @,
                                ![c].got[k] = IF out = "text" THEN "text" ELSE ""]
    /\ UNCHANGED <<now, devices, scans, enriched, conn>>

\* Store.SaveInventory.
SaveInventory(j) == scans \cup {[id |-> j.id, at |-> j.at, errs |-> j.errs, got |-> j.got]}

EndScan(c) ==
    /\ jobs[c].step = "scan" /\ jobs[c].todo = {}
    /\ scans' = IF jobs[c].ask.kind = "scan" THEN SaveInventory(jobs[c]) ELSE scans
    /\ Done(c)
    /\ UNCHANGED <<now, devices, enriched, conn>>

(***************************************************************************)
(* Enrichment                                                              *)
(***************************************************************************)
AfterNetconf(j) == IF j.ask.snmp THEN "snmp" ELSE "save"

\* Enricher.Enrich: at least one source, as the handler has checked.
StartEnrich(c) ==
    /\ jobs[c].step = "read" /\ jobs[c].ask.kind = "enrich"
    /\ jobs[c].ask.netconf \/ jobs[c].ask.snmp
    /\ jobs' = [jobs EXCEPT ![c].step = IF jobs[c].ask.netconf THEN "dial" ELSE "snmp",
                            ![c].at = now, ![c].got = [r \in RPCs |-> "none"]]
    /\ UNCHANGED <<now, devices, scans, enriched, conn>>

\* collectNetconf's return after an error of NewNetconfClient.
ConnectFailed(c) ==
    jobs' = [jobs EXCEPT ![c].step = AfterNetconf(jobs[c]), ![c].errs = @ \cup {"connect"}]

\* NewNetconfClient up to the subsystem: it needs inline credentials.  The
\* device greets or stays silent.
DialNetconf(c) ==
    /\ jobs[c].step = "dial"
    /\ \/ ConnectFailed(c) /\ UNCHANGED conn
       \/ /\ jobs[c].ask.creds
          /\ \E greeting \in {<<>>, <<"hello">>} :
                 conn' = [conn EXCEPT ![c] = [NoConn EXCEPT !.wire = greeting, !.alive = TRUE]]
          /\ jobs' = [jobs EXCEPT ![c].step = "hello"]
    /\ UNCHANGED <<now, devices, scans, enriched>>

\* doRPC: the goroutine is started and the caller waits.
DoRPC(s, r) == [s EXCEPT !.go[r] = "start"]

\* Mutant: exchangeHello sends the client's hello and does not read the
\* server's.
ExchangeHelloWriteOnly(c) ==
    /\ jobs[c].step = "hello" /\ conn[c].wire # <<>>
    /\ conn' = [conn EXCEPT ![c] = DoRPC(conn[c], "config")]
    /\ jobs' = [jobs EXCEPT ![c].step = "config"]
    /\ UNCHANGED <<now, devices, scans, enriched>>

\* exchangeHello reads the first message, however long that takes.
ExchangeHello(c) ==
    /\ jobs[c].step = "hello"
    /\ \/ /\ conn[c].wire # <<>>
          /\ conn' = [conn EXCEPT ![c] = DoRPC([conn[c] EXCEPT !.wire = Tail(@)], "config")]
          /\ jobs' = [jobs EXCEPT ![c].step = "config"]
       \/ /\ conn[c].wire = <<>> /\ ~conn[c].alive
          /\ ConnectFailed(c)
          /\ conn' = [conn EXCEPT ![c] = NoConn]
    /\ UNCHANGED <<now, devices, scans, enriched>>

\* sendRPC, in the goroutine.
SendRPC(c, r) ==
    /\ conn[c].go[r] = "start"
    /\ conn' = [conn EXCEPT ![c] =
                   IF conn[c].alive THEN [conn[c] EXCEPT !.go[r] = "reading", !.asked = Append(@, r)]
                   ELSE [conn[c] EXCEPT !.go[r] = "done", !.box[r] = "failed"]]
    /\ UNCHANGED <<now, devices, scans, enriched, jobs>>

\* readMessage, in the goroutine: up to the first end-of-message marker of
\* what has arrived.  More than one message may come in one read; what follows
\* the first is not kept for the next reader.  The end of the stream is a
\* message too, the part that has arrived.
ReadMessage(c, r) ==
    /\ conn[c].go[r] = "reading"
    /\ \/ /\ conn[c].wire # <<>>
          /\ \E n \in 1 .. Len(conn[c].wire) :
                 conn' = [conn EXCEPT ![c].wire = SubSeq(@, n + 1, Len(@)),
                                      ![c].go[r] = "done", ![c].box[r] = Head(conn[c].wire)]
       \/ /\ conn[c].wire = <<>> /\ ~conn[c].alive
          /\ conn' = [conn EXCEPT ![c].go[r] = "done", ![c].box[r] = "cut"]
    /\ UNCHANGED <<now, devices, scans, enriched, jobs>>

\* The device (external) answers its requests in order, with data or an
\* rpc-error, or hangs up.
DeviceActs(c) ==
    /\ conn[c].alive
    /\ \/ /\ conn[c].asked # <<>>
          /\ \E reply \in {Head(conn[c].asked), "failed"} :
                 conn' = [conn EXCEPT ![c].wire = Append(@, reply), ![c].asked = Tail(@)]
       \/ conn' = [conn EXCEPT ![c].alive = FALSE]
    /\ UNCHANGED <<now, devices, scans, enriched, jobs>>

\* collectNetconf with the outcome of one RPC: the next RPC, or Close.
Collected(c, r, err, ans) ==
    /\ jobs' = [jobs EXCEPT ![c].step = IF r = "config" THEN "state" ELSE AfterNetconf(jobs[c]),
                            ![c].errs = IF err THEN @ \cup {r} ELSE @,
                            ![c].got[r] = IF err THEN "none" ELSE ans]
    /\ conn' = [conn EXCEPT ![c] = IF r = "config" THEN DoRPC(conn[c], "state") ELSE NoConn]

\* The end of doRPC: the goroutine's result, or a timeout or a canceled request.
WaitEnds(c, r) ==
    /\ jobs[c].step = r
    /\ \/ conn[c].box[r] # "" /\ Collected(c, r, conn[c].box[r] = "failed", conn[c].box[r])
       \/ Collected(c, r, TRUE, "none")
    /\ UNCHANGED <<now, devices, scans, enriched>>

\* collectSNMP: the connection, the system group or the interface table fails.
CollectSNMP(c) ==
    /\ jobs[c].step = "snmp"
    /\ \E failed \in {{}, {"snmp_connect"}, {"snmp_system"}, {"snmp_interfaces"},
                      {"snmp_system", "snmp_interfaces"}} :
           jobs' = [jobs EXCEPT ![c].step = "save", ![c].errs = @ \cup failed]
    /\ UNCHANGED <<now, devices, scans, enriched, conn>>

\* SaveEnrichedInventory.
SaveEnriched(c) ==
    /\ jobs[c].step = "save"
    /\ enriched' = enriched \cup {[id |-> jobs[c].id, at |-> jobs[c].at, errs |-> jobs[c].errs,
                                   got |-> jobs[c].got, netconf |-> jobs[c].ask.netconf]}
    /\ Done(c)
    /\ UNCHANGED <<now, devices, scans, conn>>

Tick == now < MaxTime /\ now' = now + 1 /\ UNCHANGED <<devices, scans, enriched, jobs, conn>>

Init ==
    /\ now = 0
    /\ devices = [id \in Ids |-> NoDevice]
    /\ scans = {} /\ enriched = {}
    /\ jobs = [c \in Callers |-> IdleJob]
    /\ conn = [c \in Callers |-> NoConn]

Next ==
    \/ Tick
    \/ \E id \in Ids : DeleteDevice(id) \/ \E w \in Writes : CreateDevice(id, w)
    \/ \E c \in Callers :
           \/ \E id \in Ids, ask \in Asks : Begin(c, id, ask)
           \/ UpdateDevice(c) \/ HandleCommandDevice(c)
           \/ StartScan(c) \/ EndScan(c) \/ \E k \in Keys : ScanCommand(c, k)
           \/ StartEnrich(c) \/ DialNetconf(c) \/ ExchangeHello(c) \/ DeviceActs(c)
           \/ CollectSNMP(c) \/ SaveEnriched(c)
           \/ \E r \in RPCs : SendRPC(c, r) \/ ReadMessage(c, r) \/ WaitEnds(c, r)

Spec == Init /\ [][Next]_networkVars

\* HandleGetInterfaces shows no data that answers another request: when the
\* latest enrichment reports no NETCONF error, its configuration came from the
\* reply to get-config and its state from the reply to get (or from the part of
\* it that arrived before the device hung up), although the replies are taken
\* in the order of arrival and their message ids are not looked at.
NetconfAnswersAreTheirOwn ==
    \A id \in Ids : \A row \in Latest(enriched, id) :
        row.netconf /\ row.errs \cap ({"connect"} \cup RPCs) = {} =>
            \A r \in RPCs : row.got[r] \in {r, "cut"}
=============================================================================
