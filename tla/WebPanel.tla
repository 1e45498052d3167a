------------------------------ MODULE WebPanel ------------------------------
(***************************************************************************)
(* The settings of the web panel, luci/controller/domino/index.lua of the  *)
(* domino-pi: network_post(), config_post() and config_first().  The       *)
(* server runs every request in a process of its own, and nothing locks    *)
(* one against another.  They share the file a form is decrypted through,  *)
(* the UCI packages, which are committed one after the other, and the      *)
(* services that are restarted to take them over.  The power may fail at   *)
(* any time.                                                               *)
(*                                                                         *)
(* The URL of a request fixes who handles it, before anything is           *)
(* decrypted: network_post() or config_post(), and without a password of   *)
(* root config_first(), called by the authenticator, or else its login.    *)
(* The form comes out of the file later and may be one of another page.    *)
(*                                                                         *)
(* A package is a function from the options (or groups of options that are *)
(* always set and deleted together) to their values.  Left out: time zone, *)
(* the name of the access point, and what no form changes.                 *)
(***************************************************************************)
CONSTANTS
  Requests,  \* processes of the server
  Forms,     \* what their forms say
  NoForm,
  Nobody

Protocols == {"dhcp", "static", "pppoe", "3g", "wifi", "usb"}

Empty == ""

(* A form has the fields of its page, and each has a `password', which in  *)
(* one of the page `network' is that of the wan's account, and a           *)
(* `hostname'; a field that is not there is Empty too.  What the page      *)
(* first_time.htm sends is of `first'; sent when root has a password, it   *)
(* is one of `login', and so is what set_password.htm sends, without a     *)
(* hostname.  The former asks for user, password, hostname and time zone.  *)
complete(f) == f.page \in {"first", "login"} /\ f.hostname # Empty

ASSUME PanelAssumption ==
  /\ Nobody \notin Requests
  /\ NoForm \notin Forms
  /\ \A f \in Forms :
       /\ f.page \in {"network", "config", "first", "login"}
       /\ f.page = "network" => f.proto \in Protocols
       /\ complete(f) => f.password # Empty

VARIABLES
  message,   \* /tmp/pgp_message.txt: a form, or NoForm if empty
  wireless,  \* /etc/config/wireless
  network,   \* /etc/config/network
  passwd,    \* the password of root, Empty for none
  hash,      \* the hash of a password in /etc/config/domino
  applied,   \* does the system run with the two packages as they are?
  dnsmasq,   \* the lan address that dnsmasq serves
  pc,        \* where each request is
  params,    \* what its user has sent to its URL, then what it decrypted
  to_wireless, to_network, \* its changes, not yet committed
  (* history *)
  lone,      \* the request that nothing has disturbed since it began
  saved,     \* the last form, if its request was one
  before     \* encryption and password of the access point before that

files == <<wireless, network, passwd, hash>>
services == <<applied, dnsmasq>>
request == <<params, to_wireless, to_network>>
history == <<lone, saved, before>>
vars == <<message, files, services, pc, request, history>>

NoChange == [o \in {} |-> "absent"]

(* Where a request is: before each of the calls that others can see.       *)
Locations == {"idle", "open", "write", "decrypt", "load_wireless",
  "load_network", "commit_wireless", "commit_network", "restart_network",
  "restart_dnsmasq", "setpasswd", "commit_hostname", "commit_domino", "reboot"}

Factory == [sta |-> "absent", sta_key |-> "absent", disabled |-> "absent",
            encryption |-> "psk", key |-> "factory", key1 |-> "absent"]

NetworkOptions ==
  {"proto", "ifname", "address", "modem", "account", "lan", "hostname"}

TypeOK ==
  /\ message \in Forms \cup {NoForm}
  /\ DOMAIN wireless = DOMAIN Factory
  /\ wireless.sta \in {"absent", "there"}
  /\ wireless.sta = "absent" => wireless.sta_key = "absent"
  /\ DOMAIN network = NetworkOptions
  /\ network.ifname \in {"absent", "eth0", "usb0"}
  /\ applied \in BOOLEAN
  /\ pc \in [Requests -> Locations]
  /\ params \in [Requests -> Forms \cup {NoForm}]
  /\ lone \in Requests \cup {Nobody}
  /\ saved \in Forms \cup {NoForm}

Init ==
  /\ message = NoForm
  /\ wireless = Factory
  /\ network = [proto |-> "dhcp", ifname |-> "eth0", address |-> "absent",
                modem |-> "absent", account |-> "absent", lan |-> "lan1",
                hostname |-> "factory"]
  /\ passwd = Empty
  /\ hash = "factory"
  /\ applied = TRUE
  /\ dnsmasq = "lan1"
  /\ pc = [r \in Requests |-> "idle"]
  /\ params = [r \in Requests |-> NoForm]
  /\ to_wireless = [r \in Requests |-> NoChange]
  /\ to_network = [r \in Requests |-> NoChange]
  /\ lone = Nobody
  /\ saved = NoForm
  /\ before = NoForm

(* The password of the access point, where it is stored for an encryption. *)
PasswordOf(package) ==
  CASE package.encryption = "wep" -> package.key1
    [] package.encryption = "none" -> "absent"
    [] OTHER -> package.key

AccessPoint(package) ==
  [encryption |-> package.encryption, password |-> PasswordOf(package)]

Quiet == \A r \in Requests : pc[r] = "idle"

Goes(r, here, there) == pc[r] = here /\ pc' = [pc EXCEPT ![r] = there]

(* What a request has in memory goes when it ends.                         *)
Forget(r) ==
  /\ params' = [params EXCEPT ![r] = NoForm]
  /\ to_wireless' = [to_wireless EXCEPT ![r] = NoChange]
  /\ to_network' = [to_network EXCEPT ![r] = NoChange]

Ends(r) ==
  /\ Forget(r)
  /\ saved' = IF lone = r THEN params[r] ELSE saved
  /\ lone' = IF lone = r THEN Nobody ELSE lone
  /\ UNCHANGED before
-----------------------------------------------------------------------------
(* Until root has a password the panel shows first_time.htm only.          *)
Post(r) ==
  /\ Goes(r, "idle", "open")
  /\ \E f \in Forms :
       /\ f.page = "first" <=> passwd = Empty
       /\ params' = [params EXCEPT ![r] = f]
  /\ lone' = IF Quiet THEN r ELSE Nobody
  /\ before' = IF Quiet THEN AccessPoint(wireless) ELSE NoForm
  /\ saved' = NoForm
  /\ UNCHANGED <<message, files, services, to_wireless, to_network>>

(***************************************************************************)
(* decrypt_pgp_message(): the message goes through a file, whose opening   *)
(* empties it; what it holds when it is decrypted is what the request is   *)
(* carried out with, and an empty one ends it with an error.  It is        *)
(* forgotten here as soon as nobody is about to read it: whoever comes     *)
(* next empties it first.                                                  *)
(***************************************************************************)
OpenMessage(r) ==
  /\ Goes(r, "open", "write")
  /\ message' = NoForm
  /\ UNCHANGED <<files, services, request, history>>

WriteMessage(r) ==
  /\ Goes(r, "write", "decrypt")
  /\ message' = params[r]
  /\ UNCHANGED <<files, services, request, history>>

MessageRead(r) ==
  message' = IF \E s \in Requests \ {r} : pc[s] = "decrypt" THEN message ELSE NoForm

(* Who handles a request of a page, and where it begins with a form that   *)
(* it has decrypted.  network_post() fails on one without the fields of    *)
(* its own page before it commits anything; config_post() takes password   *)
(* and hostname of any; config_first() shows its page again unless all is  *)
(* there; a login changes nothing.                                         *)
dispatch(page, f) ==
  CASE page = "network" /\ f.page = "network" -> "load_wireless"
    [] page = "config" /\ f.password # Empty -> "setpasswd"
    [] page = "config" /\ f.password = Empty -> "commit_hostname"
    [] page = "first" /\ complete(f) -> "setpasswd"
    [] OTHER -> "idle"

Decrypt(r) ==
  /\ message # NoForm
  /\ Goes(r, "decrypt", dispatch(params[r].page, message))
  /\ pc'[r] # "idle"
  /\ params' = [params EXCEPT ![r] = message]
  /\ MessageRead(r)
  /\ UNCHANGED <<files, services, to_wireless, to_network, history>>

DecryptFails(r) ==
  /\ Goes(r, "decrypt", "idle")
  /\ message # NoForm => dispatch(params[r].page, message) = "idle"
  /\ Forget(r)
  /\ MessageRead(r)
  /\ lone' = IF lone = r THEN Nobody ELSE lone
  /\ UNCHANGED <<files, services, saved, before>>
-----------------------------------------------------------------------------
(***************************************************************************)
(* network_post(): the changes a form makes to a package as it was loaded. *)
(* UCI notes no deletion of what is not there.                             *)
(***************************************************************************)
Deleted(package, options) ==
  [o \in {o \in options : package[o] # "absent"} |-> "absent"]

(* Two changes; where both set an option, the first one does.              *)
Both(f, g) ==
  [o \in DOMAIN f \cup DOMAIN g |-> IF o \in DOMAIN f THEN f[o] ELSE g[o]]

(* An empty password keeps the one there is, and `wep' selects its key1.   *)
key_always_set(f, old) ==
  CASE f.encryption = "wep"  -> [key |-> "1", key1 |-> f.password]
    [] f.encryption = "none" -> Deleted(old, {"key", "key1"})
    [] OTHER -> Both(Deleted(old, {"key1"}), [key |-> f.ap_password])

set_key(f, old) ==
  CASE f.encryption = "wep"  ->
         Both([key |-> "1"], IF f.ap_password # Empty THEN [key1 |-> f.ap_password] ELSE NoChange)
    [] f.encryption = "none" -> Deleted(old, {"key", "key1"})
    [] OTHER ->
         Both(Deleted(old, {"key1"}), IF f.ap_password # Empty THEN [key |-> f.ap_password] ELSE NoChange)

(* The access point, when it is enabled.                                   *)
ap(f, old) ==
  IF f.encryption = "off"
    THEN [disabled |-> "1"]
    ELSE Both([disabled |-> "0", encryption |-> f.encryption], set_key(f, old))

(* The station that joins another wifi: a section, deleted as a whole.     *)
join_wifi(f) ==
  Both([sta |-> "there"],
       IF f.wifi_password # Empty THEN [sta_key |-> f.wifi_password] ELSE NoChange)

sta(f, old) ==
  CASE f.proto = "wifi" -> join_wifi(f)
    [] f.proto # "wifi" /\ old.sta = "there" -> [sta |-> "absent", sta_key |-> "absent"]
    [] OTHER -> NoChange

deletes(f, old) ==
  Deleted(old, (IF f.proto # "static" THEN {"address"} ELSE {}) \cup
               (IF f.proto # "3g" THEN {"modem", "account"} ELSE {}))

(* The other board's panel sets no ifname for the second and third.        *)
wan_of_qi(f, old) ==
  CASE f.proto = "dhcp"   -> [proto |-> "dhcp", ifname |-> "eth0"]
    [] f.proto = "static" -> [proto |-> "static", address |-> "set"]
    [] f.proto = "pppoe"  -> [proto |-> "pppoe", account |-> "set"]
    [] f.proto = "3g"     -> [proto |-> "3g", account |-> "set", modem |-> "set"]
    [] f.proto = "wifi"   -> Both([proto |-> "dhcp"], Deleted(old, {"ifname"}))
    [] f.proto = "usb"    -> [proto |-> "dhcp", ifname |-> "usb0"]

wan(f, old) ==
  CASE f.proto = "dhcp"   -> [proto |-> "dhcp", ifname |-> "eth0"]
    [] f.proto = "static" -> [proto |-> "static", ifname |-> "eth0", address |-> "set"]
    [] f.proto = "pppoe"  -> [proto |-> "pppoe", ifname |-> "eth0", account |-> "set"]
    [] f.proto = "3g"     -> [proto |-> "3g", account |-> "set", modem |-> "set"]
    [] f.proto = "wifi"   -> Both([proto |-> "dhcp"], Deleted(old, {"ifname"}))
    [] f.proto = "usb"    -> [proto |-> "dhcp", ifname |-> "usb0"]

lan(f, old) == IF f.lan # old.lan THEN [lan |-> f.lan] ELSE NoChange

LoadWireless(r) ==
  /\ Goes(r, "load_wireless", "load_network")
  /\ to_wireless' = [to_wireless EXCEPT ![r] = Both(ap(params[r], wireless), sta(params[r], wireless))]
  /\ UNCHANGED <<message, files, services, params, to_network, history>>

LoadNetwork(r) ==
  /\ Goes(r, "load_network", "commit_wireless")
  /\ to_network' = [to_network EXCEPT ![r] =
       Both(wan(params[r], network),
            Both(deletes(params[r], network), lan(params[r], network)))]
  /\ UNCHANGED <<message, files, services, params, to_wireless, history>>

(* A commit makes the changes to the package as it is by then.             *)
Committed(changes, package) ==
  [o \in DOMAIN package |-> IF o \in DOMAIN changes THEN changes[o] ELSE package[o]]

CommitWireless(r) ==
  /\ Goes(r, "commit_wireless", "commit_network")
  /\ wireless' = Committed(to_wireless[r], wireless)
  /\ applied' = (applied /\ wireless' = wireless)
  /\ UNCHANGED <<message, network, passwd, hash, dnsmasq, request, history>>

CommitNetwork(r) ==
  /\ Goes(r, "commit_network", "restart_network")
  /\ network' = Committed(to_network[r], network)
  /\ applied' = (applied /\ network' = network)
  /\ UNCHANGED <<message, wireless, passwd, hash, dnsmasq, request, history>>

lan_ip_stays(r) == TRUE
lan_ip_same(r) == "lan" \notin DOMAIN to_network[r]

network_restart(r) == applied' = TRUE

RestartNetwork(r) ==
  /\ Goes(r, "restart_network", IF lan_ip_same(r) THEN "idle" ELSE "restart_dnsmasq")
  /\ network_restart(r)
  /\ IF lan_ip_same(r) THEN Ends(r) ELSE UNCHANGED <<request, history>>
  /\ UNCHANGED <<message, files, dnsmasq>>

RestartDnsmasq(r) ==
  /\ Goes(r, "restart_dnsmasq", "idle")
  /\ dnsmasq' = network.lan
  /\ Ends(r)
  /\ UNCHANGED <<message, files, applied>>
-----------------------------------------------------------------------------
(* config_post() and config_first(): the new password, if there is one,    *)
(* the hostname, the hash of the password, and a reboot, which ends every  *)
(* other request too.  Nobody looks whether the password could be set.     *)
SetPasswd(r) ==
  /\ Goes(r, "setpasswd", "commit_hostname")
  /\ passwd' = params[r].password
  /\ UNCHANGED <<message, wireless, network, hash, services, request, history>>

SetPasswdFails(r) ==
  /\ Goes(r, "setpasswd", "commit_hostname")
  /\ lone' = IF lone = r THEN Nobody ELSE lone
  /\ UNCHANGED <<message, files, services, request, saved, before>>

hostname(f) == IF f.hostname # Empty THEN [hostname |-> f.hostname] ELSE NoChange

CommitHostname(r) ==
  /\ Goes(r, "commit_hostname", "commit_domino")
  /\ network' = Committed(hostname(params[r]), network)
  /\ applied' = (applied /\ network' = network)
  /\ UNCHANGED <<message, wireless, passwd, hash, dnsmasq, request, history>>

hash_of_old(r) == hash' = hash
set_first(r) == hash' = IF params[r].password # Empty THEN params[r].password ELSE hash

CommitDomino(r) ==
  /\ Goes(r, "commit_domino", "reboot")
  /\ set_first(r)
  /\ UNCHANGED <<message, wireless, network, passwd, services, request, history>>

Boot ==
  /\ message' = NoForm
  /\ applied' = TRUE
  /\ dnsmasq' = network.lan
  /\ pc' = [r \in Requests |-> "idle"]
  /\ params' = [r \in Requests |-> NoForm]
  /\ to_wireless' = [r \in Requests |-> NoChange]
  /\ to_network' = [r \in Requests |-> NoChange]
  /\ lone' = Nobody
  /\ UNCHANGED <<files, before>>

Reboot(r) ==
  /\ pc[r] = "reboot"
  /\ saved' = IF lone = r THEN params[r] ELSE saved
  /\ Boot

PowerLoss == Boot /\ UNCHANGED saved
-----------------------------------------------------------------------------
Next ==
  \/ \E r \in Requests :
       \/ Post(r) \/ OpenMessage(r) \/ WriteMessage(r)
       \/ Decrypt(r) \/ DecryptFails(r)
       \/ LoadWireless(r) \/ LoadNetwork(r)
       \/ CommitWireless(r) \/ CommitNetwork(r)
       \/ RestartNetwork(r) \/ RestartDnsmasq(r)
       \/ SetPasswd(r) \/ SetPasswdFails(r) \/ CommitHostname(r)
       \/ CommitDomino(r) \/ Reboot(r)
  \/ PowerLoss

Spec == Init /\ [][Next]_vars
-----------------------------------------------------------------------------
(***************************************************************************)
(* Properties.  A form is `saved' if nothing disturbed its request: no     *)
(* other was under way meanwhile, root's password could be set, and the    *)
(* power did not fail.                                                     *)
(***************************************************************************)
SavedOf(page) == saved # NoForm /\ saved.page = page

(* The protocol that network_get() shows.                                  *)
Shown ==
  CASE network.ifname = "absent" /\ wireless.sta = "there" -> "wifi"
    [] network.ifname = "usb0" /\ network.proto = "dhcp" -> "usb"
    [] OTHER -> network.proto

(* After a form was saved the page shows the protocol it chose, whatever   *)
(* the forms before it have left behind.                                   *)
ShowsWhatWasSaved == SavedOf("network") => Shown = saved.proto

(* Of what the forms before it set nothing is left that belongs to another *)
(* protocol, and what needs the wired port has it.                         *)
NothingLeftOver ==
  SavedOf("network") =>
    /\ (network.address = "set") = (saved.proto = "static")
    /\ (network.modem = "set") = (saved.proto = "3g")
    /\ (network.account = "set") = (saved.proto \in {"pppoe", "3g"})
    /\ (wireless.sta = "there") = (saved.proto = "wifi")
    /\ saved.proto \in {"dhcp", "static", "pppoe"} => network.ifname = "eth0"

(* network_get() shows a saved form, and nothing else is left in the       *)
(* packages that network_post() writes; the packages have their types.     *)
SavedAsFilledIn == TypeOK /\ ShowsWhatWasSaved /\ NothingLeftOver

(* Once all requests have ended, however they were mixed, whichever form   *)
(* each of them found in the file and whenever the power failed, the       *)
(* system runs with what the packages say: network_post() restarts what it *)
(* must, and config_post() and config_first() reboot.                      *)
AppliedWhenQuiet == Quiet => applied /\ dnsmasq = network.lan

SameKind(a, b) == (a = "wep") = (b = "wep") /\ (a = "none") = (b = "none")

(* A password left empty keeps the one of the access point, if the kind of *)
(* encryption stays; one that is not empty replaces it.                    *)
KeyKept ==
  SavedOf("network") /\ saved.encryption \notin {"off", "none"} =>
    /\ saved.ap_password # Empty => PasswordOf(wireless) = saved.ap_password
    /\ saved.ap_password = Empty /\ SameKind(saved.encryption, before.encryption) =>
         PasswordOf(wireless) = before.password

(* After a form of the board was saved, root's password, the hash in the   *)
(* package `domino' and the hostname are those of the form, each unless it *)
(* was left empty.                                                         *)
BoardAsFilledIn ==
  SavedOf("config") \/ SavedOf("first") =>
    /\ saved.password # Empty => passwd = saved.password /\ hash = saved.password
    /\ saved.hostname # Empty => network.hostname = saved.hostname

(* "Keep Unchanged" in an empty password field, and "WiFi password must be *)
(* at least 8 characters": after a form was saved the access point has a   *)
(* password that the factory or a user gave it, unless it has none.        *)
PasswordIsReal ==
  SavedOf("network") => PasswordOf(wireless) # "1"
=============================================================================
