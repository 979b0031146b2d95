---------------------------------- MODULE MCStartup ----------------------------------
(* Instance of Startup for TLC: two operations with a legal id, plain or   *)
(* under the prefix, and one whose id begins a segment with a digit.       *)
EXTENDS Startup, TLC

Derivation == [p \in Prefix |-> [o \in Ops |->
    CASE o = "fa"  -> "2fa"
      [] p = "api" -> IF o = "list" THEN "api.list" ELSE "api.get"
      [] OTHER     -> o]]

LegalIds == {"list", "get", "api.list", "api.get", "system.health"}

SomeDocuments ==
    {[ops |-> o, valid |-> TRUE, server |-> TRUE] :
        o \in {{"list", "get"}, {"list", "fa"}, {"fa"}}}
    \cup {[ops |-> {"list"}, valid |-> TRUE, server |-> FALSE],
          [ops |-> {"list"}, valid |-> FALSE, server |-> TRUE]}

SomeSections ==
    {<<>>} \cup {[spec |-> "url"], [prefix |-> "api"], [spec |-> " ", prefix |-> "api"],
      [spec |-> "inline", prefix |-> ""], [spec |-> "url", prefix |-> "api"],
      [spec |-> "inline", prefix |-> "api", base_url |-> "host"],
      [spec |-> "url", prefix |-> " "]}

SomeFlags ==
    {<<>>} \cup {[spec |-> "url"], [prefix |-> "api"], [prefix |-> " "],
      [spec |-> "url", prefix |-> "api"], [spec |-> "url", base_url |-> "host"]}

AllCommandLines ==
    [extensions : BOOLEAN, flags : SomeFlags, header : {"none", "good", "malformed"}]

Directories ==
    {<<>>, "list" :> "public", "list" :> "undescribed", "list" :> "hidden",
     "api.list" :> "hidden", ("api.list" :> "public") @@ ("get" :> "public")}
======================================================================================
