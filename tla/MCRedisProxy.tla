---------------------------- MODULE MCRedisProxy ----------------------------
(* RedisProxy for TLC: two nodes, one descriptor. *)
EXTENDS RedisProxy

Request(cmd, args, inline) == [cmd |-> cmd, args |-> args, inline |-> inline]
RequestSet == {Request("get", <<"b">>, FALSE),
               Request("mget", <<"a", "b">>, TRUE), Request("mset", <<"b", "v", "a", "v">>, TRUE),
               Request("keys", <<"*">>, TRUE), Request("keys", <<>>, TRUE),
               Request("monitor", <<>>, TRUE), Request("subscribe", <<"ch">>, TRUE)}
KeyNode == [k \in {"a", "v", "*"} |-> "n1"] @@ [k \in {"b", "ch"} |-> "n2"]
==============================================================================
