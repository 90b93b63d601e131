---------------------------- MODULE MCRunStream ----------------------------
(* One run, two workers and one client that reconnects.                    *)
EXTENDS RunStream

(* A policy, a memory, another tenant's policy, and one off the question.  *)
MCCorpus ==
    {[id |-> "policy", tenant |-> "acme", relevance |-> 50, retrievable |-> TRUE,
      source |-> "knowledge_base"],
     [id |-> "recalled", tenant |-> "acme", relevance |-> 90, retrievable |-> TRUE,
      source |-> "memory"],
     [id |-> "foreign", tenant |-> "other", relevance |-> 95, retrievable |-> TRUE,
      source |-> "knowledge_base"],
     [id |-> "offtopic", tenant |-> "acme", relevance |-> 49, retrievable |-> TRUE,
      source |-> "knowledge_base"]}
=============================================================================
