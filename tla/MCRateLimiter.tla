--------------------------- MODULE MCRateLimiter ---------------------------
(* A rule with a long window and one with a short one.  The address that   *)
(* is served and a whitelisted one share a subnet; the one on the          *)
(* configured blacklist does not parse; the file lists another whitelisted *)
(* one, without a type, and its subnet.                                    *)
EXTENDS RateLimiter

CONSTANT y   \* the address listed in the file

MCLimit == [r \in Rules |-> IF r = "default" THEN 2 ELSE 1]
MCWindow == [r \in Rules |-> IF r = "default" THEN 3 ELSE 1]

(* As in the defaults, a burst rule that alone would allow more requests   *)
(* in the long window than the default rule does.                          *)
WideLimit == [r \in Rules |-> 2]
WideWindow == [r \in Rules |-> IF r = "default" THEN 4 ELSE 1]
MCSubnetOf ==
  [i \in IPs |-> CASE i \in Configured -> NoSubnet
                  [] i = y -> "net1"
                  [] OTHER -> "net0"]

MCHandWritten ==
  {[type |-> "none", ip |-> y], [type |-> "subnet", ip |-> "net1"]}
=============================================================================
