-------------------------- MODULE WebPanel_proofs --------------------------
(***************************************************************************)
(* Proofs about WebPanel, for any requests and any forms.  Once all        *)
(* requests of the panel have ended, however they were mixed and whenever  *)
(* the power failed, the system runs with what the packages say; and what  *)
(* a request has saved that nothing disturbed is what its user filled in.  *)
(***************************************************************************)
EXTENDS WebPanel, TLAPS

(* What every step reads and keeps of the variables that are functions.    *)
ShapeInv ==
  /\ pc \in [Requests -> Locations]
  /\ DOMAIN to_network = Requests
  /\ "lan" \in DOMAIN network

(* Packages that are not applied yet have a request under way that will    *)
(* restart the network or the board.                                       *)
Applying == {"commit_network", "restart_network", "commit_domino", "reboot"}

NetworkInv == applied \/ \E r \in Requests : pc[r] \in Applying

(* A lan address that dnsmasq does not serve yet has a request under way   *)
(* that will restart dnsmasq.                                              *)
WillRestartDnsmasq(r) ==
  pc[r] = "restart_dnsmasq" \/ (pc[r] = "restart_network" /\ ~lan_ip_same(r))

DnsmasqInv ==
  dnsmasq = network.lan \/ \E r \in Requests : WillRestartDnsmasq(r)

(* The three together are inductive.                                       *)
ServicesInv == ShapeInv /\ NetworkInv /\ DnsmasqInv

(* In the initial state everything is applied.                             *)
LEMMA ServicesInit == Init => ServicesInv
<1> SUFFICES ASSUME Init PROVE ServicesInv
  OBVIOUS
<1>1. ShapeInv
  BY DEF Init, ShapeInv, Locations
<1>2. NetworkInv /\ DnsmasqInv
  BY DEF Init, NetworkInv, DnsmasqInv
<1> QED BY <1>1, <1>2 DEF ServicesInv

(* A boot takes everything over, whatever was under way.                   *)
LEMMA BootApplies == ASSUME ServicesInv, Boot PROVE ServicesInv'
<1>1. ShapeInv'
  BY DEF ServicesInv, ShapeInv, Boot, files, Locations
<1>2. NetworkInv'
  BY DEF NetworkInv, Boot
<1>3. DnsmasqInv'
  BY DEF DnsmasqInv, Boot, files
<1> QED BY <1>1, <1>2, <1>3 DEF ServicesInv

(* The steps of a request that touch neither the packages nor a service:   *)
(* it is not on its way to a restart, and no other request notices it.     *)
LEMMA BystanderStep ==
  ASSUME ServicesInv, NEW r \in Requests, NEW here, NEW there \in Locations,
         here \notin {"restart_network", "restart_dnsmasq"},
         here \in Applying => there \in Applying,
         Goes(r, here, there), UNCHANGED <<network, services>>,
         to_network' = to_network
           \/ \E changes : to_network' = [to_network EXCEPT ![r] = changes]
  PROVE  ServicesInv'
<1> USE DEF ServicesInv, ShapeInv, services
<1>1. ShapeInv'
  BY DEF Goes
<1>2. \A s \in Requests \ {r} : pc'[s] = pc[s] /\ to_network'[s] = to_network[s]
  BY DEF Goes
<1>3. pc[r] = here
  BY DEF Goes
<1>7. pc'[r] = there
  BY DEF Goes
<1>4. NetworkInv'
  BY <1>2, <1>3, <1>7 DEF NetworkInv
<1>5. \A s \in Requests : WillRestartDnsmasq(s) => s # r /\ WillRestartDnsmasq(s)'
  BY <1>2, <1>3 DEF WillRestartDnsmasq, lan_ip_same
<1>6. DnsmasqInv'
  BY <1>5 DEF DnsmasqInv
<1> QED BY <1>1, <1>4, <1>6

(* Sending, decrypting, loading and setting a password or the hash of one  *)
(* are such steps.                                                         *)
LEMMA FormStep ==
  ASSUME ServicesInv, NEW r \in Requests,
         Post(r) \/ OpenMessage(r) \/ WriteMessage(r) \/ DecryptFails(r)
         \/ LoadWireless(r) \/ LoadNetwork(r) \/ SetPasswd(r) \/ SetPasswdFails(r)
         \/ CommitDomino(r)
  PROVE  ServicesInv'
<1> USE BystanderStep DEF files, request, Locations, Applying
<1>1. CASE Post(r)
  <2>1. Goes(r, "idle", "open") /\ UNCHANGED <<network, services, to_network>>
    BY <1>1 DEF Post
  <2> QED BY <2>1
<1>2. CASE OpenMessage(r)
  <2>1. Goes(r, "open", "write") /\ UNCHANGED <<network, services, to_network>>
    BY <1>2 DEF OpenMessage
  <2> QED BY <2>1
<1>3. CASE WriteMessage(r)
  <2>1. Goes(r, "write", "decrypt") /\ UNCHANGED <<network, services, to_network>>
    BY <1>3 DEF WriteMessage
  <2> QED BY <2>1
<1>4. CASE DecryptFails(r)
  <2>1. Goes(r, "decrypt", "idle") /\ UNCHANGED <<network, services>>
    BY <1>4 DEF DecryptFails
  <2>2. to_network' = [to_network EXCEPT ![r] = NoChange]
    BY <1>4 DEF DecryptFails, Forget
  <2> QED BY <2>1, <2>2
<1>5. CASE LoadWireless(r)
  <2>1. Goes(r, "load_wireless", "load_network") /\ UNCHANGED <<network, services, to_network>>
    BY <1>5 DEF LoadWireless
  <2> QED BY <2>1
<1>6. CASE LoadNetwork(r)
  <2>1. Goes(r, "load_network", "commit_wireless") /\ UNCHANGED <<network, services>>
    BY <1>6 DEF LoadNetwork
  <2>2. \E changes : to_network' = [to_network EXCEPT ![r] = changes]
    BY <1>6 DEF LoadNetwork
  <2> QED BY <2>1, <2>2
<1>7. CASE SetPasswd(r)
  <2>1. Goes(r, "setpasswd", "commit_hostname") /\ UNCHANGED <<network, services, to_network>>
    BY <1>7 DEF SetPasswd
  <2> QED BY <2>1
<1>8. CASE SetPasswdFails(r)
  <2>1. Goes(r, "setpasswd", "commit_hostname") /\ UNCHANGED <<network, services, to_network>>
    BY <1>8 DEF SetPasswdFails
  <2> QED BY <2>1
<1>9. CASE CommitDomino(r)
  <2>1. Goes(r, "commit_domino", "reboot") /\ UNCHANGED <<network, services, to_network>>
    BY <1>9 DEF CommitDomino
  <2> QED BY <2>1
<1> QED BY <1>1, <1>2, <1>3, <1>4, <1>5, <1>6, <1>7, <1>8, <1>9

(* Where a request begins, with whatever form it has decrypted.            *)
LEMMA Dispatched ==
  ASSUME NEW page, NEW f
  PROVE  /\ dispatch(page, f) \in {"load_wireless", "setpasswd", "commit_hostname", "idle"}
         /\ dispatch(page, f) = "load_wireless" => f.page = "network"
         /\ dispatch(page, f) \in {"setpasswd", "commit_hostname"} => page \in {"config", "first"}
         /\ dispatch(page, f) = "commit_hostname" => f.password = Empty
<1>1. CASE page = "network" /\ f.page = "network"
  BY <1>1 DEF dispatch
<1>2. CASE page = "config" /\ f.password # Empty
  BY <1>2 DEF dispatch
<1>3. CASE page = "config" /\ f.password = Empty
  BY <1>3 DEF dispatch
<1>4. CASE page = "first" /\ complete(f)
  BY <1>4 DEF dispatch
<1>5. CASE /\ ~(page = "network" /\ f.page = "network") /\ page # "config"
           /\ ~(page = "first" /\ complete(f))
  BY <1>5 DEF dispatch
<1> QED BY <1>1, <1>2, <1>3, <1>4, <1>5

(* So is decrypting, wherever the form leads.                              *)
LEMMA DecryptStep ==
  ASSUME ServicesInv, NEW r \in Requests, Decrypt(r) PROVE ServicesInv'
<1> DEFINE there == dispatch(params[r].page, message)
<1>1. Goes(r, "decrypt", there) /\ UNCHANGED <<network, services, to_network>>
  BY DEF Decrypt, files
<1>2. there \in Locations
  BY Dispatched DEF Locations
<1>3. "decrypt" \notin Applying
  BY DEF Applying
<1> HIDE DEF there
<1> QED BY <1>1, <1>2, <1>3, BystanderStep

(* A new hostname leaves it to this request to reboot, and moves no lan.   *)
LEMMA CommitHostnameStep ==
  ASSUME ServicesInv, NEW r \in Requests, CommitHostname(r) PROVE ServicesInv'
<1> USE DEF ServicesInv, ShapeInv
<1>1. /\ pc[r] = "commit_hostname"
      /\ pc' = [pc EXCEPT ![r] = "commit_domino"]
      /\ network' = Committed(hostname(params[r]), network)
      /\ UNCHANGED <<dnsmasq, to_network>>
  BY DEF CommitHostname, Goes, request
<1>2. "lan" \notin DOMAIN hostname(params[r])
  BY DEF hostname, NoChange
<1>3. "lan" \in DOMAIN network' /\ network'.lan = network.lan
  BY <1>1, <1>2 DEF Committed
<1>4. ShapeInv'
  BY <1>1, <1>3 DEF Locations
<1>5. NetworkInv'
  BY <1>1 DEF NetworkInv, Applying
<1>6. \A s \in Requests : WillRestartDnsmasq(s) => WillRestartDnsmasq(s)'
  BY <1>1 DEF WillRestartDnsmasq, lan_ip_same
<1>7. DnsmasqInv'
  BY <1>1, <1>3, <1>6 DEF DnsmasqInv
<1> QED BY <1>4, <1>5, <1>7

(* The commit of the wireless package leaves it to this request to restart *)
(* the network: it has the other commit and the restart before it.         *)
LEMMA CommitWirelessStep ==
  ASSUME ServicesInv, NEW r \in Requests, CommitWireless(r) PROVE ServicesInv'
<1> USE DEF ServicesInv, ShapeInv
<1>1. /\ pc[r] = "commit_wireless"
      /\ pc' = [pc EXCEPT ![r] = "commit_network"]
      /\ UNCHANGED <<network, dnsmasq, to_network>>
  BY DEF CommitWireless, Goes, request
<1>2. ShapeInv'
  BY <1>1 DEF Locations
<1>3. NetworkInv'
  BY <1>1 DEF NetworkInv, Applying
<1>4. \A s \in Requests : WillRestartDnsmasq(s) => WillRestartDnsmasq(s)'
  BY <1>1 DEF WillRestartDnsmasq, lan_ip_same
<1>5. DnsmasqInv'
  BY <1>1, <1>4 DEF DnsmasqInv
<1> QED BY <1>2, <1>3, <1>5

(* So does the commit of the network package, and if that moves the lan,   *)
(* the request knows that it has dnsmasq to restart too.                   *)
LEMMA CommitNetworkStep ==
  ASSUME ServicesInv, NEW r \in Requests, CommitNetwork(r) PROVE ServicesInv'
<1> USE DEF ServicesInv, ShapeInv
<1>1. /\ pc[r] = "commit_network"
      /\ pc' = [pc EXCEPT ![r] = "restart_network"]
      /\ network' = Committed(to_network[r], network)
      /\ UNCHANGED <<dnsmasq, to_network>>
  BY DEF CommitNetwork, Goes, request
<1>2. /\ "lan" \in DOMAIN network'
      /\ lan_ip_same(r) => network'.lan = network.lan
  BY <1>1 DEF lan_ip_same, Committed
<1>3. ShapeInv'
  BY <1>1, <1>2 DEF Locations
<1>4. NetworkInv'
  BY <1>1 DEF NetworkInv, Applying
<1>5. \A s \in Requests : WillRestartDnsmasq(s) => WillRestartDnsmasq(s)'
  BY <1>1 DEF WillRestartDnsmasq, lan_ip_same
<1>6. CASE lan_ip_same(r)
  BY <1>1, <1>2, <1>3, <1>4, <1>5, <1>6 DEF DnsmasqInv
<1>7. CASE ~lan_ip_same(r)
  <2>1. WillRestartDnsmasq(r)'
    BY <1>1, <1>7 DEF WillRestartDnsmasq, lan_ip_same
  <2> QED BY <1>3, <1>4, <2>1 DEF DnsmasqInv
<1> QED BY <1>6, <1>7

(* The restart of the network takes over every package, those of other     *)
(* requests too, and dnsmasq is still restarted by who has to.             *)
LEMMA RestartNetworkStep ==
  ASSUME ServicesInv, NEW r \in Requests, RestartNetwork(r) PROVE ServicesInv'
<1> USE DEF ServicesInv, ShapeInv
<1>1. /\ pc[r] = "restart_network"
      /\ pc' = [pc EXCEPT ![r] = IF lan_ip_same(r) THEN "idle" ELSE "restart_dnsmasq"]
      /\ applied' = TRUE
      /\ UNCHANGED <<network, dnsmasq>>
  BY DEF RestartNetwork, Goes, network_restart, files
<1>2. to_network' = to_network \/ to_network' = [to_network EXCEPT ![r] = NoChange]
  BY DEF RestartNetwork, Ends, Forget, request
<1>3. ShapeInv'
  BY <1>1, <1>2 DEF Locations
<1>4. NetworkInv'
  BY <1>1 DEF NetworkInv, Applying
<1>5. \A s \in Requests \ {r} : pc'[s] = pc[s] /\ to_network'[s] = to_network[s]
  BY <1>1, <1>2
<1>6. ~lan_ip_same(r) => pc'[r] = "restart_dnsmasq"
  BY <1>1
<1>7. \A s \in Requests : WillRestartDnsmasq(s) => WillRestartDnsmasq(s)'
  BY <1>1, <1>5, <1>6 DEF WillRestartDnsmasq, lan_ip_same
<1>8. DnsmasqInv'
  BY <1>1, <1>7 DEF DnsmasqInv
<1> QED BY <1>3, <1>4, <1>8

(* After the restart of dnsmasq it serves the address of the package.      *)
LEMMA RestartDnsmasqStep ==
  ASSUME ServicesInv, NEW r \in Requests, RestartDnsmasq(r) PROVE ServicesInv'
<1> USE DEF ServicesInv, ShapeInv
<1>1. /\ pc[r] = "restart_dnsmasq"
      /\ pc' = [pc EXCEPT ![r] = "idle"]
      /\ dnsmasq' = network.lan
      /\ to_network' = [to_network EXCEPT ![r] = NoChange]
      /\ UNCHANGED <<network, applied>>
  BY DEF RestartDnsmasq, Goes, files, Ends, Forget
<1>2. ShapeInv'
  BY <1>1 DEF Locations
<1>3. NetworkInv'
  BY <1>1 DEF NetworkInv, Applying
<1>4. DnsmasqInv'
  BY <1>1 DEF DnsmasqInv
<1> QED BY <1>2, <1>3, <1>4

(* Every step keeps the invariant.                                         *)
LEMMA ServicesStep == ServicesInv /\ [Next]_vars => ServicesInv'
<1> SUFFICES ASSUME ServicesInv, [Next]_vars PROVE ServicesInv'
  OBVIOUS
<1>1. CASE UNCHANGED vars
  BY <1>1 DEF vars, services, files, request, ServicesInv, ShapeInv, NetworkInv,
    DnsmasqInv, WillRestartDnsmasq, lan_ip_same
<1>2. CASE PowerLoss
  BY <1>2, BootApplies DEF PowerLoss
<1>3. ASSUME NEW r \in Requests, Reboot(r)
      PROVE  ServicesInv'
  BY <1>3, BootApplies DEF Reboot
<1>4. ASSUME NEW r \in Requests, Decrypt(r)
      PROVE  ServicesInv'
  BY <1>4, DecryptStep
<1>5. ASSUME NEW r \in Requests, CommitHostname(r)
      PROVE  ServicesInv'
  BY <1>5, CommitHostnameStep
<1>6. ASSUME NEW r \in Requests, CommitWireless(r)
      PROVE  ServicesInv'
  BY <1>6, CommitWirelessStep
<1>7. ASSUME NEW r \in Requests, CommitNetwork(r)
      PROVE  ServicesInv'
  BY <1>7, CommitNetworkStep
<1>8. ASSUME NEW r \in Requests, RestartNetwork(r)
      PROVE  ServicesInv'
  BY <1>8, RestartNetworkStep
<1>9. ASSUME NEW r \in Requests, RestartDnsmasq(r)
      PROVE  ServicesInv'
  BY <1>9, RestartDnsmasqStep
<1> QED BY <1>1, <1>2, <1>3, <1>4, <1>5, <1>6, <1>7, <1>8, <1>9, FormStep DEF Next

(* AppliedWhenQuiet, whatever the forms, and whichever of them a request   *)
(* finds in the file: network_post() restarts the network after its        *)
(* commits, and dnsmasq after a new lan address, config_post() and         *)
(* config_first() reboot, and a request that comes in between changes      *)
(* nothing of that.                                                        *)
THEOREM ServicesFollow == Spec => []AppliedWhenQuiet
<1>1. ServicesInv => AppliedWhenQuiet
  BY DEF ServicesInv, NetworkInv, DnsmasqInv, WillRestartDnsmasq, AppliedWhenQuiet,
    Quiet, Applying
<1> QED BY ServicesInit, ServicesStep, <1>1, PTL DEF Spec
-----------------------------------------------------------------------------
(***************************************************************************)
(* What is saved is what was filled in.  A request that nothing disturbs   *)
(* is followed from the form it sends to the last of its calls: at each    *)
(* location it is known which of its changes the packages have by then.    *)
(***************************************************************************)
(* What a request is about to change: the values an option can get, and    *)
(* the section of the station is deleted as a whole.                       *)
WirelessChange(c) ==
  /\ "sta" \in DOMAIN c => c["sta"] \in {"absent", "there"}
  /\ "sta" \in DOMAIN c /\ c["sta"] = "absent" =>
       "sta_key" \in DOMAIN c /\ c["sta_key"] = "absent"
  /\ "sta_key" \in DOMAIN c => "sta" \in DOMAIN c

NetworkChange(c) ==
  "ifname" \in DOMAIN c => c["ifname"] \in {"absent", "eth0", "usb0"}

ChangesInv ==
  /\ DOMAIN to_wireless = Requests
  /\ DOMAIN to_network = Requests
  /\ \A r \in Requests : WirelessChange(to_wireless[r]) /\ NetworkChange(to_network[r])

(* A request that nothing has disturbed is the only one under way, and     *)
(* after it has ended nothing has begun.                                   *)
LoneInv ==
  /\ lone # Nobody =>
       pc[lone] # "idle" /\ \A s \in Requests \ {lone} : pc[s] = "idle"
  /\ saved # NoForm => Quiet

(* What the two packages and the passwords are once a form is carried out. *)
WirelessDone(f) ==
  /\ wireless.sta = IF f.proto = "wifi" THEN "there" ELSE "absent"
  /\ f.encryption \notin {"off", "none"} =>
       /\ f.ap_password # Empty => PasswordOf(wireless) = f.ap_password
       /\ f.ap_password = Empty /\ SameKind(f.encryption, before.encryption) =>
            PasswordOf(wireless) = before.password

NetworkDone(f) ==
  /\ network.proto = IF f.proto \in {"wifi", "usb"} THEN "dhcp" ELSE f.proto
  /\ (network.address = "set") = (f.proto = "static")
  /\ (network.modem = "set") = (f.proto = "3g")
  /\ (network.account = "set") = (f.proto \in {"pppoe", "3g"})
  /\ f.proto \in {"dhcp", "static", "pppoe"} => network.ifname = "eth0"
  /\ f.proto = "wifi" => network.ifname = "absent"
  /\ f.proto = "usb" => network.ifname = "usb0"

PasswordDone(f) == f.password # Empty => passwd = f.password /\ hash = f.password
HostnameDone(f) == f.hostname # Empty => network.hostname = f.hostname
BoardDone(f) == PasswordDone(f) /\ HostnameDone(f)

IsNetwork(f) == f \in Forms /\ f.page = "network"
IsBoard(f) == f \in Forms /\ f.page \in {"config", "first"}

Carried(f) ==
  \/ IsNetwork(f) /\ WirelessDone(f) /\ NetworkDone(f)
  \/ IsBoard(f) /\ BoardDone(f)

(* What network_post() goes on with is a form of its page.                 *)
FormOf(location, f) ==
  location \in {"load_wireless", "load_network", "commit_wireless", "commit_network",
                "restart_network", "restart_dnsmasq"} => IsNetwork(f)

FormInv == \A r \in Requests : FormOf(pc[r], params[r])

(* How far a request that nothing has disturbed has come with its form.    *)
Progress(r, f) ==
  /\ pc[r] = "decrypt" => message = f
  /\ pc[r] \in {"open", "write", "decrypt", "load_wireless", "load_network",
                "commit_wireless"} => before = AccessPoint(wireless)
  /\ pc[r] \in {"load_network", "commit_wireless"} =>
       to_wireless[r] = Both(ap(f, wireless), sta(f, wireless))
  /\ pc[r] \in {"commit_wireless", "commit_network"} =>
       to_network[r] = Both(wan(f, network), Both(deletes(f, network), lan(f, network)))
  /\ pc[r] \in {"commit_network", "restart_network", "restart_dnsmasq"} => WirelessDone(f)
  /\ pc[r] \in {"restart_network", "restart_dnsmasq"} => NetworkDone(f)
  /\ pc[r] \in {"setpasswd", "commit_hostname", "commit_domino", "reboot"} => IsBoard(f)
  /\ pc[r] \in {"commit_hostname", "commit_domino"} /\ f.password # Empty => passwd = f.password
  /\ pc[r] = "commit_domino" => HostnameDone(f)
  /\ pc[r] = "reboot" => BoardDone(f)

ProgressInv ==
  \A r \in Requests, f \in Forms \cup {NoForm} :
    lone = r /\ params[r] = f => Progress(r, f)

(* What was saved is there.                                                *)
SavedInv == \A f \in Forms : saved = f => Carried(f)

(***************************************************************************)
(* What a commit does, option by option.                                   *)
(***************************************************************************)
LEMMA CommitsBoth ==
  ASSUME NEW f, NEW g, NEW p, NEW o \in DOMAIN p
  PROVE  Committed(Both(f, g), p)[o] = IF o \in DOMAIN f THEN f[o] ELSE Committed(g, p)[o]
BY DEF Committed, Both

LEMMA CommitsOther ==
  ASSUME NEW f, NEW p, NEW o \in DOMAIN p, o \notin DOMAIN f
  PROVE  Committed(f, p)[o] = p[o]
BY DEF Committed

LEMMA CommitsSet ==
  ASSUME NEW f, NEW p, NEW o \in DOMAIN p, o \in DOMAIN f
  PROVE  Committed(f, p)[o] = f[o]
BY DEF Committed

LEMMA CommitsDeleted ==
  ASSUME NEW p, NEW S, NEW o \in DOMAIN p
  PROVE  Committed(Deleted(p, S), p)[o] = IF o \in S THEN "absent" ELSE p[o]
BY DEF Committed, Deleted

(* The package of the wireless that a form of the network page makes.      *)
WirelessMade(f, p, q) ==
  /\ q.sta = IF f.proto = "wifi" THEN "there" ELSE "absent"
  /\ f.encryption \notin {"off", "none"} =>
       /\ q.encryption = f.encryption
       /\ f.encryption = "wep" =>
            q.key1 = IF f.ap_password # Empty THEN f.ap_password ELSE p.key1
       /\ f.encryption # "wep" =>
            q.key = IF f.ap_password # Empty THEN f.ap_password ELSE p.key

LEMMA WirelessCommitted ==
  ASSUME NEW f, NEW p, DOMAIN p = DOMAIN Factory, p.sta \in {"absent", "there"},
         NEW q, q = Committed(Both(ap(f, p), sta(f, p)), p)
  PROVE  WirelessMade(f, p, q)
<1>1. {"sta", "encryption", "key", "key1"} \subseteq DOMAIN p
  BY DEF Factory
<1>2. DOMAIN ap(f, p) \subseteq {"disabled", "encryption", "key", "key1"}
  <2>1. DOMAIN set_key(f, p) \subseteq {"key", "key1"}
    BY DEF set_key, Both, Deleted, NoChange
  <2> QED BY <2>1 DEF ap, Both
<1>3. \A o \in DOMAIN p : q[o] = IF o \in DOMAIN ap(f, p) THEN ap(f, p)[o]
                                 ELSE Committed(sta(f, p), p)[o]
  BY CommitsBoth
<1>4. q.sta = IF f.proto = "wifi" THEN "there" ELSE "absent"
  <2>1. q.sta = Committed(sta(f, p), p)["sta"]
    BY <1>1, <1>2, <1>3
  <2>2. CASE f.proto = "wifi"
    <3>1. sta(f, p) = join_wifi(f)
      BY <2>2 DEF sta
    <3>2. "sta" \in DOMAIN join_wifi(f) /\ join_wifi(f)["sta"] = "there"
      BY DEF join_wifi, Both
    <3> QED BY <1>1, <2>1, <2>2, <3>1, <3>2, CommitsSet
  <2>3. CASE f.proto # "wifi" /\ p.sta = "there"
    <3>1. sta(f, p) = [sta |-> "absent", sta_key |-> "absent"]
      BY <2>3 DEF sta
    <3> QED BY <1>1, <2>1, <2>3, <3>1, CommitsSet
  <2>4. CASE f.proto # "wifi" /\ p.sta = "absent"
    <3>1. sta(f, p) = NoChange
      BY <2>4 DEF sta
    <3>2. "sta" \notin DOMAIN sta(f, p)
      BY <3>1 DEF NoChange
    <3> QED BY <1>1, <2>1, <2>4, <3>2, CommitsOther
  <2> QED BY <2>2, <2>3, <2>4
<1>5. ASSUME f.encryption \notin {"off", "none"}
      PROVE  /\ q.encryption = f.encryption
             /\ f.encryption = "wep" =>
                  q.key1 = IF f.ap_password # Empty THEN f.ap_password ELSE p.key1
             /\ f.encryption # "wep" =>
                  q.key = IF f.ap_password # Empty THEN f.ap_password ELSE p.key
  <2>1. ap(f, p) = Both([disabled |-> "0", encryption |-> f.encryption], set_key(f, p))
    BY <1>5 DEF ap
  <2>2. q.encryption = f.encryption
    BY <1>1, <1>3, <2>1 DEF Both
  <2>3. \A o \in {"key", "key1"} :
          (o \in DOMAIN ap(f, p) <=> o \in DOMAIN set_key(f, p))
            /\ (o \in DOMAIN set_key(f, p) => ap(f, p)[o] = set_key(f, p)[o])
    BY <2>1 DEF Both
  <2>4. \A o \in {"key", "key1"} : Committed(sta(f, p), p)[o] = p[o]
    <3>1. DOMAIN sta(f, p) \subseteq {"sta", "sta_key"}
      BY DEF sta, join_wifi, Both, NoChange
    <3> QED BY <1>1, <3>1, CommitsOther
  <2>5. \A o \in {"key", "key1"} :
          q[o] = IF o \in DOMAIN set_key(f, p) THEN set_key(f, p)[o] ELSE p[o]
    BY <1>1, <1>3, <2>3, <2>4
  <2>6. CASE f.encryption = "wep"
    <3>1. set_key(f, p) = Both([key |-> "1"],
            IF f.ap_password # Empty THEN [key1 |-> f.ap_password] ELSE NoChange)
      BY <2>6 DEF set_key
    <3>2. q.key1 = IF f.ap_password # Empty THEN f.ap_password ELSE p.key1
      BY <2>5, <3>1 DEF Both, NoChange
    <3> QED BY <2>2, <2>6, <3>2
  <2>7. CASE f.encryption # "wep"
    <3>1. set_key(f, p) = Both(Deleted(p, {"key1"}),
            IF f.ap_password # Empty THEN [key |-> f.ap_password] ELSE NoChange)
      BY <1>5, <2>7 DEF set_key
    <3>2. q.key = IF f.ap_password # Empty THEN f.ap_password ELSE p.key
      BY <2>5, <3>1 DEF Both, NoChange, Deleted
    <3> QED BY <2>2, <2>7, <3>2
  <2> QED BY <2>6, <2>7
<1> QED BY <1>4, <1>5 DEF WirelessMade

(* The package of the network that it makes.                               *)
LEMMA NetworkCommitted ==
  ASSUME NEW f, NEW p, f.proto \in Protocols,
         DOMAIN p = NetworkOptions,
         NEW q, q = Committed(Both(wan(f, p), Both(deletes(f, p), lan(f, p))), p)
  PROVE  /\ q.proto = IF f.proto \in {"wifi", "usb"} THEN "dhcp" ELSE f.proto
         /\ (q.address = "set") = (f.proto = "static")
         /\ (q.modem = "set") = (f.proto = "3g")
         /\ (q.account = "set") = (f.proto \in {"pppoe", "3g"})
         /\ f.proto \in {"dhcp", "static", "pppoe"} => q.ifname = "eth0"
         /\ f.proto = "wifi" => q.ifname = "absent"
         /\ f.proto = "usb" => q.ifname = "usb0"
<1>0. DOMAIN p = {"proto", "ifname", "address", "modem", "account", "lan", "hostname"}
  BY DEF NetworkOptions
<1> DEFINE w == wan(f, p)
           gone == (IF f.proto # "static" THEN {"address"} ELSE {}) \cup
                   (IF f.proto # "3g" THEN {"modem", "account"} ELSE {})
<1>1. \A o \in DOMAIN p : o # "lan" =>
        q[o] = IF o \in DOMAIN w THEN w[o] ELSE IF o \in gone THEN "absent" ELSE p[o]
  <2> SUFFICES ASSUME NEW o \in DOMAIN p, o # "lan"
               PROVE  q[o] = IF o \in DOMAIN w THEN w[o]
                             ELSE IF o \in gone THEN "absent" ELSE p[o]
    OBVIOUS
  <2>1. "lan" \notin {o} /\ o \notin DOMAIN lan(f, p)
    BY DEF lan, NoChange
  <2>2. Committed(lan(f, p), p)[o] = p[o]
    BY <2>1, CommitsOther
  <2>3. Committed(Both(deletes(f, p), lan(f, p)), p)[o] =
          IF o \in gone THEN "absent" ELSE p[o]
    <3>1. deletes(f, p) = Deleted(p, gone)
      BY DEF deletes
    <3>2. Committed(deletes(f, p), p)[o] = IF o \in gone THEN "absent" ELSE p[o]
      BY <3>1, CommitsDeleted
    <3>3. CASE o \in DOMAIN deletes(f, p)
      BY <3>2, <3>3, CommitsBoth, CommitsSet
    <3>4. CASE o \notin DOMAIN deletes(f, p)
      BY <2>2, <3>2, <3>4, CommitsBoth, CommitsOther
    <3> QED BY <3>3, <3>4
  <2> QED BY <2>3, CommitsBoth
<1> HIDE DEF gone
<1>2. CASE f.proto = "dhcp"
  <2>1. w = [proto |-> "dhcp", ifname |-> "eth0"]
    BY <1>2 DEF wan
  <2>2. gone = {"address", "modem", "account"}
    BY <1>2 DEF gone
  <2> HIDE DEF w
  <2> QED BY <1>0, <1>1, <1>2, <2>1, <2>2
<1>3. CASE f.proto = "static"
  <2>1. w = [proto |-> "static", ifname |-> "eth0", address |-> "set"]
    BY <1>3 DEF wan
  <2>2. gone = {"modem", "account"}
    BY <1>3 DEF gone
  <2> HIDE DEF w
  <2> QED BY <1>0, <1>1, <1>3, <2>1, <2>2
<1>4. CASE f.proto = "pppoe"
  <2>1. w = [proto |-> "pppoe", ifname |-> "eth0", account |-> "set"]
    BY <1>4 DEF wan
  <2>2. gone = {"address", "modem", "account"}
    BY <1>4 DEF gone
  <2> HIDE DEF w
  <2> QED BY <1>0, <1>1, <1>4, <2>1, <2>2
<1>5. CASE f.proto = "3g"
  <2>1. w = [proto |-> "3g", account |-> "set", modem |-> "set"]
    BY <1>5 DEF wan
  <2>2. gone = {"address"}
    BY <1>5 DEF gone
  <2> HIDE DEF w
  <2> QED BY <1>0, <1>1, <1>5, <2>1, <2>2
<1>6. CASE f.proto = "wifi"
  <2>1. w = Both([proto |-> "dhcp"], Deleted(p, {"ifname"}))
    BY <1>6 DEF wan
  <2>2. gone = {"address", "modem", "account"}
    BY <1>6 DEF gone
  <2>3. /\ DOMAIN w \subseteq {"proto", "ifname"} /\ "proto" \in DOMAIN w
        /\ w["proto"] = "dhcp"
        /\ IF p["ifname"] = "absent" THEN "ifname" \notin DOMAIN w
           ELSE "ifname" \in DOMAIN w /\ w["ifname"] = "absent"
    BY <2>1 DEF Both, Deleted
  <2> HIDE DEF w
  <2>4. q.ifname = "absent"
    BY <1>0, <1>1, <2>2, <2>3
  <2>5. q.proto = "dhcp" /\ q.address = "absent" /\ q.modem = "absent" /\ q.account = "absent"
    BY <1>0, <1>1, <2>2, <2>3
  <2> QED BY <1>6, <2>4, <2>5
<1>7. CASE f.proto = "usb"
  <2>1. w = [proto |-> "dhcp", ifname |-> "usb0"]
    BY <1>7 DEF wan
  <2>2. gone = {"address", "modem", "account"}
    BY <1>7 DEF gone
  <2> HIDE DEF w
  <2> QED BY <1>0, <1>1, <1>7, <2>1, <2>2
<1> QED BY <1>2, <1>3, <1>4, <1>5, <1>6, <1>7 DEF Protocols
-----------------------------------------------------------------------------
(***************************************************************************)
(* Types of the packages and of the changes.                               *)
(***************************************************************************)
(* A form makes changes of that kind only.                                 *)
LEMMA ChangesMade ==
  ASSUME NEW f, NEW p, NEW w
  PROVE  /\ WirelessChange(Both(ap(f, w), sta(f, w)))
         /\ f.proto \in Protocols =>
              NetworkChange(Both(wan(f, p), Both(deletes(f, p), lan(f, p))))
<1>1. WirelessChange(Both(ap(f, w), sta(f, w)))
  <2>1. DOMAIN set_key(f, w) \subseteq {"key", "key1"}
    BY DEF set_key, Both, Deleted, NoChange
  <2>2. "sta" \notin DOMAIN ap(f, w) /\ "sta_key" \notin DOMAIN ap(f, w)
    BY <2>1 DEF ap, Both
  <2>3. WirelessChange(sta(f, w))
    BY DEF WirelessChange, sta, join_wifi, Both, NoChange
  <2> QED BY <2>2, <2>3 DEF WirelessChange, Both
<1>2. ASSUME f.proto \in Protocols
      PROVE  NetworkChange(Both(wan(f, p), Both(deletes(f, p), lan(f, p))))
  <2>1. "ifname" \in DOMAIN wan(f, p) => wan(f, p)["ifname"] \in {"absent", "eth0", "usb0"}
    BY <1>2 DEF wan, Protocols, Both, Deleted
  <2>2. "ifname" \notin DOMAIN Both(deletes(f, p), lan(f, p))
    BY DEF deletes, lan, Deleted, Both, NoChange
  <2> QED BY <2>1, <2>2 DEF NetworkChange, Both
<1> QED BY <1>1, <1>2

(* So does a request that has not loaded anything.                         *)
LEMMA NoChangeIsOne == WirelessChange(NoChange) /\ NetworkChange(NoChange)
BY DEF WirelessChange, NetworkChange, NoChange

(* Such changes leave the packages with their types.                       *)
WirelessType(p) ==
  /\ DOMAIN p = DOMAIN Factory
  /\ p.sta \in {"absent", "there"}
  /\ p.sta = "absent" => p.sta_key = "absent"

NetworkType(p) ==
  /\ DOMAIN p = NetworkOptions
  /\ p.ifname \in {"absent", "eth0", "usb0"}

LEMMA CommitsTyped ==
  ASSUME NEW c, NEW p
  PROVE  /\ WirelessType(p) /\ WirelessChange(c) => WirelessType(Committed(c, p))
         /\ NetworkType(p) /\ NetworkChange(c) => NetworkType(Committed(c, p))
BY DEF WirelessType, NetworkType, WirelessChange, NetworkChange, Committed, Factory,
  NetworkOptions

(* The rest of the types: the files, the requests and the history.         *)
RequestTypes ==
  /\ message \in Forms \cup {NoForm}
  /\ pc \in [Requests -> Locations]
  /\ params \in [Requests -> Forms \cup {NoForm}]
  /\ lone \in Requests \cup {Nobody}
  /\ saved \in Forms \cup {NoForm}

LEMMA SplitTypes ==
  TypeOK <=> RequestTypes /\ applied \in BOOLEAN /\ WirelessType(wireless) /\ NetworkType(network)
BY DEF TypeOK, RequestTypes, WirelessType, NetworkType

(* What a request that ends leaves behind.                                 *)
LEMMA ForgetTypes ==
  ASSUME TypeOK, ChangesInv, NEW r \in Requests, Forget(r)
  PROVE  params' \in [Requests -> Forms \cup {NoForm}] /\ ChangesInv'
BY NoChangeIsOne DEF Forget, TypeOK, ChangesInv

(* Where a request goes.                                                   *)
LEMMA GoesTyped ==
  ASSUME TypeOK, NEW r \in Requests, NEW here, NEW there \in Locations, Goes(r, here, there)
  PROVE  pc' \in [Requests -> Locations]
BY DEF Goes, TypeOK

(* The variables have their types, and every request is at a location for  *)
(* its form.                                                               *)
PanelTypes == TypeOK /\ ChangesInv /\ FormInv

(* In the initial state there are no forms yet.                            *)
LEMMA TypesInit == Init => PanelTypes
<1> SUFFICES ASSUME Init PROVE PanelTypes
  OBVIOUS
<1>1. TypeOK
  BY DEF Init, TypeOK, Factory, Locations, NetworkOptions
<1>2. ChangesInv /\ FormInv
  BY NoChangeIsOne DEF Init, ChangesInv, FormInv, FormOf
<1> QED BY <1>1, <1>2 DEF PanelTypes

(* A request goes on with its form, and changes nothing in what it holds.  *)
LEMMA MovesTyped ==
  ASSUME PanelTypes, NEW r \in Requests, NEW here, NEW there \in Locations,
         Goes(r, here, there), UNCHANGED request, FormOf(there, params[r])
  PROVE  pc' \in [Requests -> Locations] /\ ChangesInv' /\ FormInv'
<1>1. ChangesInv' /\ pc' \in [Requests -> Locations]
  BY GoesTyped DEF PanelTypes, request, ChangesInv
<1>2. FormInv'
  BY DEF PanelTypes, TypeOK, FormInv, Goes, request
<1> QED BY <1>1, <1>2

(* It ends, and forgets what it held.                                      *)
LEMMA EndsTyped ==
  ASSUME PanelTypes, NEW r \in Requests, NEW here, Goes(r, here, "idle"), Forget(r),
         lone' \in {lone, Nobody}, saved' \in {saved, params[r]}
  PROVE  /\ pc' \in [Requests -> Locations] /\ ChangesInv' /\ FormInv'
         /\ params' \in [Requests -> Forms \cup {NoForm}]
         /\ lone' \in Requests \cup {Nobody} /\ saved' \in Forms \cup {NoForm}
<1>1. ChangesInv' /\ params' \in [Requests -> Forms \cup {NoForm}]
  BY ForgetTypes DEF PanelTypes
<1>2. pc' \in [Requests -> Locations]
  BY GoesTyped DEF PanelTypes, Locations
<1>3. FormInv'
  BY DEF PanelTypes, TypeOK, FormInv, FormOf, Goes, Forget
<1> QED BY <1>1, <1>2, <1>3 DEF PanelTypes, TypeOK

(* Every step, action by action.                                           *)
LEMMA TypesStep ==
  ASSUME PanelTypes, [Next]_vars PROVE PanelTypes'
<1>0. /\ TypeOK /\ ChangesInv /\ FormInv
      /\ RequestTypes /\ applied \in BOOLEAN /\ WirelessType(wireless) /\ NetworkType(network)
  BY SplitTypes DEF PanelTypes
<1>1. ASSUME NEW r \in Requests, Post(r)
      PROVE  PanelTypes'
  <2>1. PICK f \in Forms : params' = [params EXCEPT ![r] = f]
    BY <1>1 DEF Post
  <2>2. pc' \in [Requests -> Locations]
    BY <1>0, <1>1, GoesTyped DEF Post, Locations
  <2>3. RequestTypes'
    BY <1>0, <1>1, <2>1, <2>2 DEF Post, RequestTypes
  <2>4. TypeOK'
    BY <1>0, <1>1, <2>3, SplitTypes DEF Post, files, services, TypeOK, RequestTypes
  <2>5. ChangesInv'
    BY <1>0, <1>1 DEF Post, ChangesInv
  <2>6. FormInv'
    BY <1>0, <1>1, <2>1 DEF Post, Goes, FormInv, FormOf, TypeOK
  <2> QED BY <2>4, <2>5, <2>6 DEF PanelTypes
<1>2. ASSUME NEW r \in Requests, OpenMessage(r) \/ WriteMessage(r)
      PROVE  PanelTypes'
  <2>1. PICK there \in {"write", "decrypt"}, here \in Locations : Goes(r, here, there)
    BY <1>2 DEF OpenMessage, WriteMessage, Locations
  <2>2. UNCHANGED <<files, services, request, history>> /\ FormOf(there, params[r])
    BY <1>2, <2>1 DEF OpenMessage, WriteMessage, FormOf
  <2>3. pc' \in [Requests -> Locations] /\ ChangesInv' /\ FormInv'
    BY <2>1, <2>2, MovesTyped DEF Locations
  <2>4. message' \in Forms \cup {NoForm}
    BY <1>0, <1>2 DEF OpenMessage, WriteMessage, TypeOK
  <2>5. TypeOK'
    BY <1>0, <2>2, <2>3, <2>4 DEF files, services, request, history, TypeOK
  <2> QED BY <2>3, <2>5 DEF PanelTypes
<1>3. ASSUME NEW r \in Requests, Decrypt(r)
      PROVE  PanelTypes'
  <2> DEFINE there == dispatch(params[r].page, message)
  <2>1. /\ Goes(r, "decrypt", there) /\ message \in Forms /\ MessageRead(r)
        /\ params' = [params EXCEPT ![r] = message]
        /\ UNCHANGED <<files, services, to_wireless, to_network, history>>
    BY <1>0, <1>3 DEF Decrypt, TypeOK
  <2>2. there \in Locations /\ FormOf(there, message)
    BY <2>1, Dispatched DEF Locations, FormOf, IsNetwork
  <2> HIDE DEF there
  <2>3. ChangesInv' /\ pc' \in [Requests -> Locations]
    BY <1>0, <2>1, <2>2, GoesTyped DEF ChangesInv
  <2>4. FormInv'
    BY <1>0, <2>1, <2>2 DEF FormInv, Goes, TypeOK
  <2>5. params' \in [Requests -> Forms \cup {NoForm}] /\ message' \in Forms \cup {NoForm}
    BY <1>0, <2>1 DEF TypeOK, MessageRead
  <2>6. TypeOK'
    BY <1>0, <2>1, <2>3, <2>5 DEF files, services, history, TypeOK
  <2> QED BY <2>3, <2>4, <2>6 DEF PanelTypes
<1>4. ASSUME NEW r \in Requests, DecryptFails(r)
      PROVE  PanelTypes'
  <2>1. /\ Goes(r, "decrypt", "idle") /\ Forget(r) /\ MessageRead(r)
        /\ lone' \in {lone, Nobody} /\ UNCHANGED <<files, services, saved>>
    BY <1>4 DEF DecryptFails
  <2>2. /\ pc' \in [Requests -> Locations] /\ ChangesInv' /\ FormInv'
        /\ params' \in [Requests -> Forms \cup {NoForm}]
        /\ lone' \in Requests \cup {Nobody}
    BY <2>1, EndsTyped
  <2>4. message' \in Forms \cup {NoForm}
    BY <1>0, <2>1 DEF TypeOK, MessageRead
  <2>3. TypeOK'
    BY <1>0, <2>1, <2>2, <2>4 DEF files, services, TypeOK
  <2> QED BY <2>2, <2>3 DEF PanelTypes
<1>5. ASSUME NEW r \in Requests, LoadWireless(r)
      PROVE  PanelTypes'
  <2> DEFINE change == Both(ap(params[r], wireless), sta(params[r], wireless))
  <2>1. /\ Goes(r, "load_wireless", "load_network")
        /\ to_wireless' = [to_wireless EXCEPT ![r] = change]
        /\ UNCHANGED <<message, files, services, params, to_network, history>>
    BY <1>5 DEF LoadWireless
  <2>2. WirelessChange(change)
    BY ChangesMade
  <2> HIDE DEF change
  <2>3. ChangesInv' /\ pc' \in [Requests -> Locations]
    BY <1>0, <2>1, <2>2, GoesTyped DEF ChangesInv, Locations
  <2>4. FormInv'
    BY <1>0, <2>1 DEF FormInv, FormOf, Goes, TypeOK
  <2>5. TypeOK'
    BY <1>0, <2>1, <2>3 DEF files, services, history, TypeOK
  <2> QED BY <2>3, <2>4, <2>5 DEF PanelTypes
<1>6. ASSUME NEW r \in Requests, LoadNetwork(r)
      PROVE  PanelTypes'
  <2> DEFINE change == Both(wan(params[r], network),
                            Both(deletes(params[r], network), lan(params[r], network)))
  <2>1. /\ Goes(r, "load_network", "commit_wireless")
        /\ to_network' = [to_network EXCEPT ![r] = change]
        /\ UNCHANGED <<message, files, services, params, to_wireless, history>>
    BY <1>6 DEF LoadNetwork
  <2>2. IsNetwork(params[r])
    BY <1>0, <2>1 DEF FormInv, FormOf, Goes
  <2>3. NetworkChange(change)
    BY <2>2, ChangesMade, PanelAssumption DEF IsNetwork
  <2> HIDE DEF change
  <2>4. ChangesInv' /\ pc' \in [Requests -> Locations]
    BY <1>0, <2>1, <2>3, GoesTyped DEF ChangesInv, Locations
  <2>5. FormInv'
    BY <1>0, <2>1 DEF FormInv, FormOf, Goes, TypeOK
  <2>6. TypeOK'
    BY <1>0, <2>1, <2>4 DEF files, services, history, TypeOK
  <2> QED BY <2>4, <2>5, <2>6 DEF PanelTypes
<1>7. ASSUME NEW r \in Requests, CommitWireless(r)
      PROVE  PanelTypes'
  <2>1. /\ Goes(r, "commit_wireless", "commit_network")
        /\ wireless' = Committed(to_wireless[r], wireless)
        /\ UNCHANGED <<message, network, request, history>>
    BY <1>7 DEF CommitWireless
  <2>2. applied' \in BOOLEAN
    BY <1>7 DEF CommitWireless
  <2>3. WirelessType(wireless')
    BY <1>0, <2>1, CommitsTyped DEF ChangesInv
  <2>4. FormOf("commit_network", params[r])
    BY <1>0, <2>1 DEF FormInv, FormOf, Goes
  <2>5. pc' \in [Requests -> Locations] /\ ChangesInv' /\ FormInv'
    BY <2>1, <2>4, MovesTyped DEF Locations
  <2>6. TypeOK'
    BY <1>0, <2>1, <2>2, <2>3, <2>5 DEF TypeOK, WirelessType, request, history
  <2> QED BY <2>5, <2>6 DEF PanelTypes
<1>8. ASSUME NEW r \in Requests, CommitNetwork(r)
      PROVE  PanelTypes'
  <2>1. /\ Goes(r, "commit_network", "restart_network")
        /\ network' = Committed(to_network[r], network)
        /\ UNCHANGED <<message, wireless, request, history>>
    BY <1>8 DEF CommitNetwork
  <2>2. applied' \in BOOLEAN
    BY <1>8 DEF CommitNetwork
  <2>3. NetworkType(network')
    BY <1>0, <2>1, CommitsTyped DEF ChangesInv
  <2>4. FormOf("restart_network", params[r])
    BY <1>0, <2>1 DEF FormInv, FormOf, Goes
  <2>5. pc' \in [Requests -> Locations] /\ ChangesInv' /\ FormInv'
    BY <2>1, <2>4, MovesTyped DEF Locations
  <2>6. TypeOK'
    BY <1>0, <2>1, <2>2, <2>3, <2>5 DEF TypeOK, NetworkType, request, history
  <2> QED BY <2>5, <2>6 DEF PanelTypes
<1>9. ASSUME NEW r \in Requests, RestartNetwork(r)
      PROVE  PanelTypes'
  <2>1. /\ Goes(r, "restart_network", IF lan_ip_same(r) THEN "idle" ELSE "restart_dnsmasq")
        /\ UNCHANGED <<message, files>>
    BY <1>9 DEF RestartNetwork
  <2>2. applied' = TRUE
    BY <1>9 DEF RestartNetwork, network_restart
  <2>3. CASE lan_ip_same(r)
    <3>1. Goes(r, "restart_network", "idle") /\ Ends(r)
      BY <1>9, <2>1, <2>3 DEF RestartNetwork
    <3>2. /\ pc' \in [Requests -> Locations] /\ ChangesInv' /\ FormInv'
          /\ params' \in [Requests -> Forms \cup {NoForm}]
          /\ lone' \in Requests \cup {Nobody} /\ saved' \in Forms \cup {NoForm}
      BY <3>1, EndsTyped DEF Ends
    <3>3. TypeOK'
      BY <1>0, <2>1, <2>2, <3>2 DEF files, TypeOK
    <3> QED BY <3>2, <3>3 DEF PanelTypes
  <2>4. CASE ~lan_ip_same(r)
    <3>1. Goes(r, "restart_network", "restart_dnsmasq") /\ UNCHANGED <<request, history>>
      BY <1>9, <2>1, <2>4 DEF RestartNetwork
    <3>2. FormOf("restart_dnsmasq", params[r])
      BY <1>0, <3>1 DEF FormInv, FormOf, Goes
    <3>3. pc' \in [Requests -> Locations] /\ ChangesInv' /\ FormInv'
      BY <3>1, <3>2, MovesTyped DEF Locations
    <3>4. TypeOK'
      BY <1>0, <2>1, <2>2, <3>1, <3>3 DEF files, request, history, TypeOK
    <3> QED BY <3>3, <3>4 DEF PanelTypes
  <2> QED BY <2>3, <2>4
<1>10. ASSUME NEW r \in Requests, RestartDnsmasq(r)
      PROVE  PanelTypes'
  <2>1. Goes(r, "restart_dnsmasq", "idle") /\ Ends(r) /\ UNCHANGED <<message, files, applied>>
    BY <1>10 DEF RestartDnsmasq
  <2>2. /\ pc' \in [Requests -> Locations] /\ ChangesInv' /\ FormInv'
        /\ params' \in [Requests -> Forms \cup {NoForm}]
        /\ lone' \in Requests \cup {Nobody} /\ saved' \in Forms \cup {NoForm}
    BY <2>1, EndsTyped DEF Ends
  <2>3. TypeOK'
    BY <1>0, <2>1, <2>2 DEF files, TypeOK
  <2> QED BY <2>2, <2>3 DEF PanelTypes
<1>11. ASSUME NEW r \in Requests, SetPasswd(r) \/ SetPasswdFails(r)
      PROVE  PanelTypes'
  <2>1. /\ Goes(r, "setpasswd", "commit_hostname")
        /\ lone' \in {lone, Nobody}
        /\ UNCHANGED <<message, wireless, network, services, request, saved>>
    BY <1>11 DEF SetPasswd, SetPasswdFails, history, files
  <2>2. FormOf("commit_hostname", params[r])
    BY DEF FormOf
  <2>3. pc' \in [Requests -> Locations] /\ ChangesInv' /\ FormInv'
    BY <2>1, <2>2, MovesTyped DEF Locations
  <2>4. TypeOK'
    BY <1>0, <2>1, <2>3 DEF services, request, TypeOK
  <2> QED BY <2>3, <2>4 DEF PanelTypes
<1>17. ASSUME NEW r \in Requests, CommitHostname(r)
      PROVE  PanelTypes'
  <2>1. /\ Goes(r, "commit_hostname", "commit_domino")
        /\ network' = Committed(hostname(params[r]), network)
        /\ UNCHANGED <<message, wireless, request, history>>
    BY <1>17 DEF CommitHostname
  <2>2. applied' \in BOOLEAN
    BY <1>17 DEF CommitHostname
  <2>3. NetworkChange(hostname(params[r]))
    BY DEF NetworkChange, hostname, NoChange
  <2>4. NetworkType(network')
    BY <1>0, <2>1, <2>3, CommitsTyped
  <2>5. pc' \in [Requests -> Locations] /\ ChangesInv' /\ FormInv'
    <3>1. FormOf("commit_domino", params[r])
      BY DEF FormOf
    <3> QED BY <2>1, <3>1, MovesTyped DEF Locations
  <2>6. TypeOK'
    BY <1>0, <2>1, <2>2, <2>4, <2>5 DEF TypeOK, NetworkType, request, history
  <2> QED BY <2>5, <2>6 DEF PanelTypes
<1>12. ASSUME NEW r \in Requests, CommitDomino(r)
      PROVE  PanelTypes'
  <2>1. /\ Goes(r, "commit_domino", "reboot")
        /\ UNCHANGED <<message, wireless, network, services, request, history>>
    BY <1>12 DEF CommitDomino
  <2>2. FormOf("reboot", params[r])
    BY DEF FormOf
  <2>3. pc' \in [Requests -> Locations] /\ ChangesInv' /\ FormInv'
    BY <2>1, <2>2, MovesTyped DEF Locations
  <2>4. TypeOK'
    BY <1>0, <2>1, <2>3 DEF services, request, history, TypeOK
  <2> QED BY <2>3, <2>4 DEF PanelTypes
<1>13. ASSUME Boot, saved' \in Forms \cup {NoForm}
       PROVE  PanelTypes'
  <2>1. ChangesInv' /\ FormInv'
    BY <1>13, NoChangeIsOne DEF Boot, ChangesInv, FormInv, FormOf
  <2>2. pc' \in [Requests -> Locations] /\ params' \in [Requests -> Forms \cup {NoForm}]
    BY <1>13 DEF Boot, Locations
  <2>3. TypeOK'
    BY <1>0, <1>13, <2>2 DEF Boot, files, TypeOK
  <2> QED BY <2>1, <2>3 DEF PanelTypes
<1>14. ASSUME NEW r \in Requests, Reboot(r)
       PROVE  PanelTypes'
  BY <1>0, <1>13, <1>14 DEF Reboot, TypeOK
<1>15. CASE PowerLoss
  BY <1>0, <1>13, <1>15 DEF PowerLoss, TypeOK
<1>16. CASE UNCHANGED vars
  BY <1>0, <1>16 DEF vars, files, services, request, history, PanelTypes, TypeOK, ChangesInv, FormInv
<1> QED BY <1>1, <1>2, <1>3, <1>4, <1>5, <1>6, <1>7, <1>8, <1>9, <1>10, <1>11, <1>12,
           <1>14, <1>15, <1>16, <1>17 DEF Next
-----------------------------------------------------------------------------
(***************************************************************************)
(* The undisturbed request.  A request that moves is the undisturbed one,  *)
(* or there is none; it goes on as Progress says, or it ends having        *)
(* carried out its form.                                                   *)
(***************************************************************************)
LonePanel == LoneInv /\ ProgressInv /\ SavedInv

(* A request under way is the undisturbed one or there is none.            *)
LEMMA Alone ==
  ASSUME PanelTypes, LoneInv, NEW r \in Requests, pc[r] # "idle"
  PROVE  lone \in {r, Nobody} /\ saved = NoForm
BY DEF PanelTypes, TypeOK, LoneInv, Quiet

(* A request goes on.                                                      *)
LEMMA GoesOn ==
  ASSUME PanelTypes, LonePanel, NEW r \in Requests, NEW here, NEW there,
         Goes(r, here, there), here # "idle", there # "idle",
         UNCHANGED <<lone, saved>>,
         \A f \in Forms \cup {NoForm} :
           lone = r /\ params'[r] = f => Progress(r, f)'
  PROVE  LonePanel'
<1>1. lone \in {r, Nobody} /\ saved = NoForm
  BY Alone DEF Goes, LonePanel
<1>2. pc[r] = here /\ pc' = [pc EXCEPT ![r] = there]
  BY DEF Goes
<1>3. LoneInv'
  BY <1>1, <1>2 DEF PanelTypes, TypeOK, LonePanel, LoneInv
<1>4. ProgressInv'
  BY <1>1, PanelAssumption DEF ProgressInv
<1>5. SavedInv'
  BY <1>1, PanelAssumption DEF SavedInv
<1> QED BY <1>3, <1>4, <1>5 DEF LonePanel

(* A request ends.                                                         *)
LEMMA EndsCarried ==
  ASSUME PanelTypes, LonePanel, NEW r \in Requests, NEW here,
         Goes(r, here, "idle"), here # "idle",
         lone' = IF lone = r THEN Nobody ELSE lone,
         \/ saved' = saved
         \/ /\ saved' = IF lone = r THEN params[r] ELSE saved
            /\ \A f \in Forms : lone = r /\ params[r] = f => Carried(f)'
  PROVE  LonePanel'
<1>1. lone \in {r, Nobody} /\ saved = NoForm
  BY Alone DEF Goes, LonePanel
<1>2. pc[r] = here /\ pc' = [pc EXCEPT ![r] = "idle"] /\ lone' = Nobody
  BY <1>1 DEF Goes
<1>3. saved' # NoForm => lone = r
  BY <1>1
<1>4. LoneInv'
  BY <1>2, <1>3, PanelAssumption DEF PanelTypes, TypeOK, LonePanel, LoneInv, Quiet
<1>5. ProgressInv'
  BY <1>2, PanelAssumption DEF ProgressInv
<1>6. SavedInv'
  BY <1>1, PanelAssumption DEF SavedInv
<1> QED BY <1>4, <1>5, <1>6 DEF LonePanel

(* A form is sent: undisturbed if no other request is under way.           *)
LEMMA PostStep ==
  ASSUME PanelTypes, LonePanel, NEW r \in Requests, Post(r) PROVE LonePanel'
<1>1. PICK f \in Forms : params' = [params EXCEPT ![r] = f]
  BY DEF Post
<1>2. /\ pc[r] = "idle" /\ pc' = [pc EXCEPT ![r] = "open"]
      /\ lone' = IF Quiet THEN r ELSE Nobody
      /\ before' = IF Quiet THEN AccessPoint(wireless) ELSE NoForm
      /\ saved' = NoForm /\ wireless' = wireless
  BY DEF Post, Goes, files
<1>3. LoneInv'
  BY <1>2 DEF PanelTypes, TypeOK, LoneInv, Quiet
<1>4. ProgressInv'
  <2> SUFFICES ASSUME NEW s \in Requests, NEW g \in Forms \cup {NoForm},
                      lone' = s, params'[s] = g
               PROVE  Progress(s, g)'
    BY DEF ProgressInv
  <2>1. s = r /\ Quiet
    BY <1>2, PanelAssumption
  <2>2. pc'[s] = "open"
    BY <1>2, <2>1 DEF PanelTypes, TypeOK
  <2>3. before' = AccessPoint(wireless)'
    BY <1>2, <2>1 DEF AccessPoint, PasswordOf
  <2> QED BY <2>2, <2>3 DEF Progress
<1>5. SavedInv'
  BY <1>2, PanelAssumption DEF SavedInv
<1> QED BY <1>3, <1>4, <1>5 DEF LonePanel

(* Sending the message and failing to decrypt it change nothing of it.     *)
LEMMA MessageStep ==
  ASSUME PanelTypes, LonePanel, NEW r \in Requests,
         OpenMessage(r) \/ WriteMessage(r) \/ DecryptFails(r)
  PROVE  LonePanel'
<1>1. CASE OpenMessage(r)
  <2>1. Goes(r, "open", "write") /\ UNCHANGED <<files, services, request, history>>
    BY <1>1 DEF OpenMessage
  <2>2. ASSUME NEW f \in Forms \cup {NoForm}, lone = r, params'[r] = f
        PROVE  Progress(r, f)'
    <3>1. pc[r] = "open" /\ pc'[r] = "write"
      BY <2>1 DEF PanelTypes, TypeOK, Goes
    <3>2. Progress(r, f)
      BY <2>1, <2>2 DEF LonePanel, ProgressInv, request
    <3> QED BY <2>1, <3>1, <3>2 DEF Progress, AccessPoint, PasswordOf, files, history
  <2> QED BY <2>1, <2>2, GoesOn DEF history
<1>2. CASE WriteMessage(r)
  <2>1. /\ Goes(r, "write", "decrypt") /\ UNCHANGED <<files, services, request, history>>
        /\ message' = params[r]
    BY <1>2 DEF WriteMessage
  <2>2. ASSUME NEW f \in Forms \cup {NoForm}, lone = r, params'[r] = f
        PROVE  Progress(r, f)'
    <3>1. pc[r] = "write" /\ pc'[r] = "decrypt"
      BY <2>1 DEF PanelTypes, TypeOK, Goes
    <3>2. Progress(r, f) /\ message' = f
      BY <2>1, <2>2 DEF LonePanel, ProgressInv, request
    <3> QED BY <2>1, <3>1, <3>2 DEF Progress, AccessPoint, PasswordOf, files, history
  <2> QED BY <2>1, <2>2, GoesOn DEF history
<1>3. CASE DecryptFails(r)
  BY <1>3, EndsCarried DEF DecryptFails
<1> QED BY <1>1, <1>2, <1>3

(* What is decrypted is what the undisturbed request has sent, and it is   *)
(* handled as its page.                                                    *)
LEMMA DecryptProgress ==
  ASSUME PanelTypes, LonePanel, NEW r \in Requests, Decrypt(r) PROVE LonePanel'
<1> DEFINE there == dispatch(params[r].page, message)
<1>1. /\ Goes(r, "decrypt", there) /\ there # "idle" /\ message \in Forms
      /\ params' = [params EXCEPT ![r] = message] /\ UNCHANGED <<files, history>>
  BY DEF Decrypt, PanelTypes, TypeOK, Goes
<1>2. pc[r] = "decrypt" /\ pc'[r] = there
  BY <1>1 DEF Goes, PanelTypes, TypeOK
<1>3. lone = r => params[r] = message
  <2>1. params[r] \in Forms \cup {NoForm}
    BY DEF PanelTypes, TypeOK
  <2> QED BY <1>2, <2>1 DEF LonePanel, ProgressInv, Progress
<1>4. ASSUME NEW f \in Forms \cup {NoForm}, lone = r, params'[r] = f
      PROVE  Progress(r, f)'
  <2>1. f = message /\ f = params[r] /\ f \in Forms
    BY <1>1, <1>3, <1>4 DEF PanelTypes, TypeOK
  <2>2. before = AccessPoint(wireless)
    BY <1>2, <1>4, <2>1 DEF LonePanel, ProgressInv, Progress
  <2>3. before' = AccessPoint(wireless)'
    BY <1>1, <2>2 DEF AccessPoint, PasswordOf, files, history
  <2>4. /\ there \in {"load_wireless", "setpasswd", "commit_hostname"}
        /\ there # "load_wireless" => IsBoard(f)
        /\ there = "commit_hostname" => f.password = Empty
    BY <1>1, <2>1, Dispatched DEF IsBoard
  <2> HIDE DEF there
  <2>5. IsBoard(f)' <=> IsBoard(f)
    BY DEF IsBoard
  <2> QED BY <1>2, <2>3, <2>4, <2>5 DEF Progress
<1> HIDE DEF there
<1> QED BY <1>1, <1>4, GoesOn DEF history

(* Loading the packages: the changes are those to the packages there are.  *)
LEMMA LoadStep ==
  ASSUME PanelTypes, LonePanel, NEW r \in Requests, LoadWireless(r) \/ LoadNetwork(r)
  PROVE  LonePanel'
<1>1. UNCHANGED <<message, wireless, network, passwd, hash, params, lone, saved, before>>
  BY DEF LoadWireless, LoadNetwork, files, history
<1>2. \A f \in Forms \cup {NoForm} : lone = r /\ params'[r] = f => Progress(r, f)
  BY <1>1 DEF LonePanel, ProgressInv
<1>3. AccessPoint(wireless)' = AccessPoint(wireless)
  BY <1>1 DEF AccessPoint, PasswordOf
<1>4. CASE LoadWireless(r)
  <2>1. /\ Goes(r, "load_wireless", "load_network")
        /\ to_wireless' = [to_wireless EXCEPT ![r] =
             Both(ap(params[r], wireless), sta(params[r], wireless))]
    BY <1>4 DEF LoadWireless
  <2>2. /\ pc[r] = "load_wireless" /\ pc'[r] = "load_network"
        /\ to_wireless'[r] = Both(ap(params[r], wireless), sta(params[r], wireless))
    BY <2>1 DEF Goes, PanelTypes, TypeOK, ChangesInv
  <2>3. ASSUME NEW f \in Forms \cup {NoForm}, lone = r, params'[r] = f
        PROVE  Progress(r, f)'
    <3>1. to_wireless'[r] = Both(ap(f, wireless'), sta(f, wireless'))
      BY <1>1, <2>2, <2>3
    <3>2. to_wireless'[r] = Both(ap(f, wireless), sta(f, wireless))'
      BY <3>1
    <3>3. before' = AccessPoint(wireless)'
      BY <1>1, <1>2, <1>3, <2>2, <2>3 DEF Progress
    <3> QED BY <2>2, <3>2, <3>3 DEF Progress
  <2> QED BY <1>1, <2>1, <2>3, GoesOn
<1>5. CASE LoadNetwork(r)
  <2>1. /\ Goes(r, "load_network", "commit_wireless") /\ UNCHANGED to_wireless
        /\ to_network' = [to_network EXCEPT ![r] =
             Both(wan(params[r], network),
                  Both(deletes(params[r], network), lan(params[r], network)))]
    BY <1>5 DEF LoadNetwork
  <2>2. /\ pc[r] = "load_network" /\ pc'[r] = "commit_wireless"
        /\ to_network'[r] = Both(wan(params[r], network),
             Both(deletes(params[r], network), lan(params[r], network)))
    BY <2>1 DEF Goes, PanelTypes, TypeOK, ChangesInv
  <2>3. ASSUME NEW f \in Forms \cup {NoForm}, lone = r, params'[r] = f
        PROVE  Progress(r, f)'
    <3>1. to_network'[r] =
            Both(wan(f, network'), Both(deletes(f, network'), lan(f, network')))
      BY <1>1, <2>2, <2>3
    <3>2. to_wireless'[r] = Both(ap(f, wireless'), sta(f, wireless'))
      BY <1>1, <1>2, <2>1, <2>2, <2>3 DEF Progress
    <3>3. before' = AccessPoint(wireless)'
      BY <1>1, <1>2, <1>3, <2>2, <2>3 DEF Progress
    <3> QED BY <2>2, <3>1, <3>2, <3>3 DEF Progress
  <2> QED BY <1>1, <2>1, <2>3, GoesOn
<1> QED BY <1>4, <1>5

(* The commits: what the form asks for is in the packages.                 *)
LEMMA WirelessCarried ==
  ASSUME PanelTypes, LonePanel, NEW r \in Requests, CommitWireless(r) PROVE LonePanel'
<1>1. /\ Goes(r, "commit_wireless", "commit_network")
      /\ wireless' = Committed(to_wireless[r], wireless)
      /\ UNCHANGED <<network, params, to_network, lone, saved, before>>
  BY DEF CommitWireless, request, history
<1>2. pc[r] = "commit_wireless" /\ pc'[r] = "commit_network"
  BY <1>1 DEF Goes, PanelTypes, TypeOK
<1>3. ASSUME NEW f \in Forms \cup {NoForm}, lone = r, params'[r] = f
      PROVE  Progress(r, f)'
  <2>1. Progress(r, f)
    BY <1>1, <1>3 DEF LonePanel, ProgressInv
  <2>2. /\ wireless' = Committed(Both(ap(f, wireless), sta(f, wireless)), wireless)
        /\ before = AccessPoint(wireless) /\ before' = before
        /\ to_network'[r] =
             Both(wan(f, network'), Both(deletes(f, network'), lan(f, network')))
    BY <1>1, <1>2, <2>1 DEF Progress
  <2>3. DOMAIN wireless = DOMAIN Factory /\ wireless.sta \in {"absent", "there"}
    BY DEF PanelTypes, TypeOK
  <2>4. WirelessMade(f, wireless, wireless')
    BY <2>2, <2>3, WirelessCommitted
  <2>5. ASSUME f.encryption \notin {"off", "none"}
        PROVE  /\ f.ap_password # Empty => PasswordOf(wireless') = f.ap_password
               /\ f.ap_password = Empty /\ SameKind(f.encryption, before'.encryption) =>
                    PasswordOf(wireless') = before'.password
    <3>1. PasswordOf(wireless') = IF f.encryption = "wep" THEN wireless'.key1 ELSE wireless'.key
      BY <2>4, <2>5 DEF WirelessMade, PasswordOf
    <3>2. ASSUME SameKind(f.encryption, before'.encryption)
          PROVE  before'.password = IF f.encryption = "wep" THEN wireless.key1 ELSE wireless.key
      BY <2>2, <2>5, <3>2 DEF SameKind, AccessPoint, PasswordOf
    <3>3. f.ap_password # Empty => PasswordOf(wireless') = f.ap_password
      BY <2>4, <2>5, <3>1 DEF WirelessMade
    <3>4. f.ap_password = Empty => PasswordOf(wireless') =
            IF f.encryption = "wep" THEN wireless.key1 ELSE wireless.key
      BY <2>4, <2>5, <3>1 DEF WirelessMade
    <3> QED BY <3>2, <3>3, <3>4
  <2>6. WirelessDone(f)'
    BY <2>4, <2>5 DEF WirelessMade, WirelessDone
  <2> QED BY <1>2, <2>2, <2>6 DEF Progress
<1> QED BY <1>1, <1>3, GoesOn

(* The same of the other package.                                          *)
LEMMA NetworkCarried ==
  ASSUME PanelTypes, LonePanel, NEW r \in Requests, CommitNetwork(r) PROVE LonePanel'
<1>1. /\ Goes(r, "commit_network", "restart_network")
      /\ network' = Committed(to_network[r], network)
      /\ UNCHANGED <<wireless, params, lone, saved, before>>
  BY DEF CommitNetwork, request, history
<1>2. pc[r] = "commit_network" /\ pc'[r] = "restart_network"
  BY <1>1 DEF Goes, PanelTypes, TypeOK
<1>3. ASSUME NEW f \in Forms \cup {NoForm}, lone = r, params'[r] = f
      PROVE  Progress(r, f)'
  <2>1. Progress(r, f)
    BY <1>1, <1>3 DEF LonePanel, ProgressInv
  <2>2. f.proto \in Protocols
    BY <1>1, <1>2, <1>3, PanelAssumption DEF PanelTypes, FormInv, FormOf, IsNetwork
  <2>3. network' = Committed(Both(wan(f, network),
                     Both(deletes(f, network), lan(f, network))), network)
    BY <1>1, <1>2, <2>1 DEF Progress
  <2>4. NetworkDone(f)'
    BY <2>2, <2>3, NetworkCommitted DEF NetworkDone, PanelTypes, TypeOK
  <2>5. WirelessDone(f)'
    BY <1>1, <1>2, <2>1 DEF Progress, WirelessDone, PasswordOf
  <2> QED BY <1>2, <2>4, <2>5 DEF Progress
<1> QED BY <1>1, <1>3, GoesOn

(* The restarts change no package; after the last one the form is saved.   *)
LEMMA RestartsCarried ==
  ASSUME PanelTypes, LonePanel, NEW r \in Requests, RestartNetwork(r) \/ RestartDnsmasq(r)
  PROVE  LonePanel'
<1>1. /\ pc[r] \in {"restart_network", "restart_dnsmasq"}
      /\ UNCHANGED <<wireless, network, before>>
  BY DEF RestartNetwork, RestartDnsmasq, Goes, files, history, Ends
<1>2. ASSUME NEW f \in Forms \cup {NoForm}, lone = r, params[r] = f
      PROVE  IsNetwork(f) /\ WirelessDone(f)' /\ NetworkDone(f)'
  <2>1. Progress(r, f)
    BY <1>2 DEF LonePanel, ProgressInv
  <2>2. WirelessDone(f) /\ NetworkDone(f)
    BY <1>1, <2>1 DEF Progress
  <2>3. IsNetwork(f)
    BY <1>1, <1>2 DEF PanelTypes, FormInv, FormOf
  <2> QED BY <1>1, <2>2, <2>3 DEF WirelessDone, NetworkDone, PasswordOf
<1>3. ASSUME Ends(r), NEW here, Goes(r, here, "idle"), here # "idle"
      PROVE  LonePanel'
  BY <1>2, <1>3, EndsCarried DEF Ends, Carried
<1>4. CASE RestartNetwork(r) /\ lan_ip_same(r)
  BY <1>3, <1>4 DEF RestartNetwork
<1>5. CASE RestartNetwork(r) /\ ~lan_ip_same(r)
  <2>1. Goes(r, "restart_network", "restart_dnsmasq") /\ UNCHANGED <<request, history>>
    BY <1>5 DEF RestartNetwork
  <2>2. pc'[r] = "restart_dnsmasq"
    BY <2>1 DEF Goes, PanelTypes, TypeOK
  <2>3. \A f \in Forms \cup {NoForm} : lone = r /\ params'[r] = f => Progress(r, f)'
    BY <1>2, <2>1, <2>2 DEF Progress, request
  <2> QED BY <2>1, <2>3, GoesOn DEF history
<1>6. CASE RestartDnsmasq(r)
  BY <1>3, <1>6 DEF RestartDnsmasq
<1> QED BY <1>4, <1>5, <1>6

(* The passwords.                                                          *)
LEMMA PasswdCarried ==
  ASSUME PanelTypes, LonePanel, NEW r \in Requests, SetPasswd(r) PROVE LonePanel'
<1>1. /\ Goes(r, "setpasswd", "commit_hostname") /\ passwd' = params[r].password
      /\ UNCHANGED <<params, lone, saved>>
  BY DEF SetPasswd, request, history
<1>2. pc[r] = "setpasswd" /\ pc'[r] = "commit_hostname"
  BY <1>1 DEF Goes, PanelTypes, TypeOK
<1>3. ASSUME NEW f \in Forms \cup {NoForm}, lone = r, params'[r] = f
      PROVE  Progress(r, f)'
  <2>1. IsBoard(f)
    BY <1>1, <1>2, <1>3 DEF LonePanel, ProgressInv, Progress
  <2>2. IsBoard(f)' /\ passwd' = f.password
    BY <1>1, <1>3, <2>1 DEF IsBoard
  <2> QED BY <1>2, <2>2 DEF Progress
<1> QED BY <1>1, <1>3, GoesOn

(* A request that could not set the password is not followed any more.     *)
LEMMA PasswdNotCarried ==
  ASSUME PanelTypes, LonePanel, NEW r \in Requests, SetPasswdFails(r) PROVE LonePanel'
<1>1. /\ Goes(r, "setpasswd", "commit_hostname")
      /\ lone' = IF lone = r THEN Nobody ELSE lone
      /\ saved' = saved
  BY DEF SetPasswdFails
<1>2. lone \in {r, Nobody} /\ saved = NoForm
  BY <1>1, Alone DEF Goes, LonePanel
<1>3. lone' = Nobody
  BY <1>1, <1>2
<1>4. LoneInv' /\ ProgressInv' /\ SavedInv'
  BY <1>1, <1>2, <1>3, PanelAssumption DEF LoneInv, ProgressInv, SavedInv
<1> QED BY <1>4 DEF LonePanel

(* The hostname.                                                           *)
LEMMA HostnameCarried ==
  ASSUME PanelTypes, LonePanel, NEW r \in Requests, CommitHostname(r) PROVE LonePanel'
<1>1. /\ Goes(r, "commit_hostname", "commit_domino") /\ passwd' = passwd
      /\ network' = Committed(hostname(params[r]), network)
      /\ UNCHANGED <<params, lone, saved>>
  BY DEF CommitHostname, request, history
<1>2. pc[r] = "commit_hostname" /\ pc'[r] = "commit_domino"
  BY <1>1 DEF Goes, PanelTypes, TypeOK
<1>3. ASSUME NEW f \in Forms \cup {NoForm}, lone = r, params'[r] = f
      PROVE  Progress(r, f)'
  <2>1. IsBoard(f) /\ (f.password # Empty => passwd = f.password)
    BY <1>1, <1>2, <1>3 DEF LonePanel, ProgressInv, Progress
  <2>2. IsBoard(f)' /\ (f.password # Empty => passwd' = f.password)
    BY <1>1, <2>1 DEF IsBoard
  <2>3. HostnameDone(f)'
    <3>1. "hostname" \in DOMAIN network
      BY DEF PanelTypes, TypeOK, NetworkOptions
    <3>2. ASSUME f.hostname # Empty
          PROVE  network'.hostname = f.hostname
      <4>1. hostname(f) = [hostname |-> f.hostname]
        BY <3>2 DEF hostname
      <4>2. network' = Committed(hostname(f), network)
        BY <1>1, <1>3
      <4> QED BY <3>1, <4>1, <4>2, CommitsSet
    <3> QED BY <3>2 DEF HostnameDone
  <2> QED BY <1>2, <2>2, <2>3 DEF Progress
<1> QED BY <1>1, <1>3, GoesOn

(* The hash; a reboot follows.                                             *)
LEMMA DominoCarried ==
  ASSUME PanelTypes, LonePanel, NEW r \in Requests, CommitDomino(r) PROVE LonePanel'
<1>1. /\ Goes(r, "commit_domino", "reboot")
      /\ hash' = IF params[r].password # Empty THEN params[r].password ELSE hash
      /\ UNCHANGED <<passwd, network, params, lone, saved>>
  BY DEF CommitDomino, set_first, request, history
<1>2. pc[r] = "commit_domino" /\ pc'[r] = "reboot"
  BY <1>1 DEF Goes, PanelTypes, TypeOK
<1>3. ASSUME NEW f \in Forms \cup {NoForm}, lone = r, params'[r] = f
      PROVE  Progress(r, f)'
  <2>1. IsBoard(f) /\ HostnameDone(f) /\ (f.password # Empty => passwd = f.password)
    BY <1>1, <1>2, <1>3 DEF LonePanel, ProgressInv, Progress
  <2>2. IsBoard(f)' /\ HostnameDone(f)'
    BY <1>1, <2>1 DEF IsBoard, HostnameDone
  <2>3. PasswordDone(f)'
    BY <1>1, <1>3, <2>1 DEF PasswordDone
  <2> QED BY <1>2, <2>2, <2>3 DEF Progress, BoardDone
<1> QED BY <1>1, <1>3, GoesOn

(* A boot ends all requests; that of a form of the board has it carried    *)
(* out before.                                                             *)
LEMMA BootCarried ==
  ASSUME PanelTypes, LonePanel, Boot,
         saved' = saved \/ \E r \in Requests : Reboot(r)
  PROVE  LonePanel'
<1>1. /\ \A r \in Requests : pc'[r] = "idle"
      /\ lone' = Nobody /\ UNCHANGED <<wireless, network, passwd, hash, before>>
  BY DEF Boot, files
<1>2. LoneInv' /\ ProgressInv'
  BY <1>1, PanelAssumption DEF LoneInv, ProgressInv, Quiet
<1>3. \A f \in Forms : Carried(f) => Carried(f)'
  BY <1>1 DEF Carried, WirelessDone, NetworkDone, BoardDone, PasswordDone, HostnameDone,
    PasswordOf, IsNetwork, IsBoard
<1>4. \A f \in Forms : saved' = f => Carried(f)
  <2> SUFFICES ASSUME NEW f \in Forms, saved' = f PROVE Carried(f)
    OBVIOUS
  <2>1. CASE saved' = saved
    BY <2>1 DEF LonePanel, SavedInv
  <2>2. CASE saved' # saved
    <3>1. PICK r \in Requests : pc[r] = "reboot" /\ lone = r /\ params[r] = f
      BY <2>2 DEF Reboot
    <3>2. Progress(r, f)
      BY <3>1 DEF LonePanel, ProgressInv
    <3> QED BY <3>1, <3>2 DEF Progress, Carried
  <2> QED BY <2>1, <2>2
<1>5. SavedInv'
  BY <1>3, <1>4 DEF SavedInv
<1> QED BY <1>2, <1>5 DEF LonePanel

(* In the initial state nothing is under way or saved.                     *)
LEMMA LoneInit == Init => LonePanel
<1> SUFFICES ASSUME Init PROVE LonePanel
  OBVIOUS
<1>1. LoneInv /\ ProgressInv /\ SavedInv
  BY PanelAssumption DEF Init, LoneInv, ProgressInv, SavedInv
<1> QED BY <1>1 DEF LonePanel

(* Every step keeps it.                                                    *)
LEMMA LoneStep == PanelTypes /\ LonePanel /\ [Next]_vars => LonePanel'
<1> SUFFICES ASSUME PanelTypes, LonePanel, [Next]_vars PROVE LonePanel'
  OBVIOUS
<1>1. CASE UNCHANGED vars
  <2>1. UNCHANGED <<message, wireless, network, passwd, hash, pc, params,
                    to_wireless, to_network, lone, saved, before>>
    BY <1>1 DEF vars, files, request, history
  <2>2. LoneInv'
    BY <2>1 DEF LonePanel, LoneInv, Quiet
  <2>3. \A f : Carried(f) => Carried(f)'
    BY <2>1 DEF Carried, WirelessDone, NetworkDone, BoardDone, PasswordDone, HostnameDone,
      PasswordOf, IsNetwork, IsBoard
  <2>4. SavedInv'
    BY <2>1, <2>3 DEF LonePanel, SavedInv
  <2>5. \A f : /\ WirelessDone(f) => WirelessDone(f)'
               /\ NetworkDone(f) => NetworkDone(f)'
               /\ BoardDone(f) => BoardDone(f)'
               /\ HostnameDone(f) => HostnameDone(f)'
               /\ IsBoard(f) => IsBoard(f)'
    BY <2>1 DEF WirelessDone, NetworkDone, BoardDone, PasswordDone, HostnameDone, PasswordOf,
      IsBoard
  <2>7. \A r, f : Progress(r, f) => Progress(r, f)'
    BY <2>1, <2>5 DEF Progress, AccessPoint, PasswordOf
  <2>6. ProgressInv'
    BY <2>1, <2>7 DEF LonePanel, ProgressInv
  <2> QED BY <2>2, <2>4, <2>6 DEF LonePanel
<1>2. CASE PowerLoss
  BY <1>2, BootCarried DEF PowerLoss
<1>3. ASSUME NEW r \in Requests, Reboot(r)
      PROVE  LonePanel'
  BY <1>3, BootCarried DEF Reboot
<1> QED BY <1>1, <1>2, <1>3, PostStep, MessageStep, DecryptProgress, LoadStep,
           WirelessCarried, NetworkCarried, RestartsCarried, PasswdCarried,
           PasswdNotCarried, HostnameCarried, DominoCarried DEF Next

(* The packages keep their types under any mix of requests and power       *)
(* losses, and an undisturbed request of the panel has always got as far   *)
(* as its location says.                                                   *)
THEOREM PanelInvariant == Spec => [](PanelTypes /\ LonePanel)
<1>1. Init => PanelTypes /\ LonePanel
  BY TypesInit, LoneInit
<1>2. PanelTypes /\ LonePanel /\ [Next]_vars => PanelTypes' /\ LonePanel'
  BY TypesStep, LoneStep
<1> QED BY <1>1, <1>2, PTL DEF Spec

(* SavedAsFilledIn, for any forms and whatever was set before: after       *)
(* network_post() has ended with nothing in between, network_get() shows   *)
(* the protocol of its form, no option of another protocol is left in the  *)
(* packages, and the packages have their types at all times.               *)
THEOREM FormsAreSaved == Spec => []SavedAsFilledIn
<1>1. PanelTypes /\ LonePanel => SavedAsFilledIn
  <2> SUFFICES ASSUME PanelTypes, LonePanel PROVE SavedAsFilledIn
    OBVIOUS
  <2>1. ASSUME SavedOf("network")
        PROVE  WirelessDone(saved) /\ NetworkDone(saved) /\ saved.proto \in Protocols
    <3>1. saved \in Forms
      BY <2>1 DEF PanelTypes, TypeOK, SavedOf
    <3>2. Carried(saved)
      BY <3>1 DEF LonePanel, SavedInv
    <3>3. ~IsBoard(saved)
      BY <2>1 DEF SavedOf, IsBoard
    <3> QED BY <2>1, <3>1, <3>2, <3>3, PanelAssumption DEF Carried, SavedOf
  <2>2. ShowsWhatWasSaved
    BY <2>1 DEF ShowsWhatWasSaved, Shown, WirelessDone, NetworkDone, Protocols
  <2>3. NothingLeftOver
    BY <2>1 DEF NothingLeftOver, WirelessDone, NetworkDone
  <2> QED BY <2>2, <2>3 DEF SavedAsFilledIn, PanelTypes
<1> QED BY <1>1, PanelInvariant, PTL

(* KeyKept: network_post() sets the password of the access point to the    *)
(* one of its form, or keeps it when the field was left empty and the kind *)
(* of encryption stays.                                                    *)
THEOREM KeysAreKept == Spec => []KeyKept
<1>1. PanelTypes /\ LonePanel => KeyKept
  <2> SUFFICES ASSUME PanelTypes, LonePanel, SavedOf("network")
               PROVE  WirelessDone(saved)
    BY DEF KeyKept, WirelessDone
  <2>1. saved \in Forms /\ ~IsBoard(saved)
    BY DEF PanelTypes, TypeOK, SavedOf, IsBoard
  <2> QED BY <2>1 DEF LonePanel, SavedInv, Carried
<1> QED BY <1>1, PanelInvariant, PTL

(* BoardAsFilledIn: config_post() and config_first() leave root's          *)
(* password, the hash in the package `domino' and the hostname as their    *)
(* form has them, whatever the requests before them did.                   *)
THEOREM BoardIsSaved == Spec => []BoardAsFilledIn
<1>1. PanelTypes /\ LonePanel => BoardAsFilledIn
  <2> SUFFICES ASSUME PanelTypes, LonePanel, SavedOf("config") \/ SavedOf("first")
               PROVE  BoardDone(saved)
    BY DEF BoardAsFilledIn, BoardDone, PasswordDone, HostnameDone
  <2>1. saved \in Forms /\ ~IsNetwork(saved)
    BY DEF PanelTypes, TypeOK, SavedOf, IsNetwork
  <2> QED BY <2>1 DEF LonePanel, SavedInv, Carried
<1> QED BY <1>1, PanelInvariant, PTL
=============================================================================
