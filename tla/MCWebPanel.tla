----------------------------- MODULE MCWebPanel -----------------------------
(***************************************************************************)
(* An instance of WebPanel for TLC: two requests; each protocol, with      *)
(* forms of the access point that change the kind of its encryption or     *)
(* not, with and without a password; a lan that moves and moves back.      *)
(***************************************************************************)
EXTENDS WebPanel, TLC

CONSTANTS r1, r2
Symmetry == Permutations({r1, r2})

Page(proto, lan_ip, encryption, ap_password) ==
  [page |-> "network", proto |-> proto, lan |-> lan_ip,
   encryption |-> encryption, ap_password |-> ap_password,
   wifi_password |-> IF proto = "wifi" THEN "secret" ELSE "",
   password |-> IF proto = "3g" THEN "secret" ELSE "", hostname |-> ""]

Board(page, password, hostname_of) ==
  [page |-> page, password |-> password, hostname |-> hostname_of]

MCForms ==
  { Page("dhcp", "lan1", "psk", ""), Page("wifi", "lan1", "psk", "secret"),
    Page("static", "lan2", "wep", "secret"), Page("usb", "lan1", "off", ""),
    Page("3g", "lan1", "none", ""),
    Board("config", "secret", "name"), Board("first", "secret", "name"),
    Board("login", "secret", "") }
=============================================================================
