------------------------------ MODULE MCSeoJob ------------------------------
(* Instances of SeoJob for TLC. *)
EXTENDS SeoJob

AllSteps == Steps

\* A search recommendation for a collection, one for a page of a WordPress store,
\* and a page for a store that has no Shopify.
Jobs ==
  {[kind |-> "other", handle |-> TRUE, site |-> "shopify", gsc |-> TRUE, improve |-> TRUE],
   [kind |-> "page", handle |-> TRUE, site |-> "wordpress", gsc |-> TRUE, improve |-> TRUE],
   [kind |-> "page", handle |-> FALSE, site |-> "none", gsc |-> FALSE, improve |-> FALSE]}

\* A search recommendation that its first run would update and a later run creates,
\* and a page without a handle.
SentAgain ==
  {[kind |-> "page", handle |-> TRUE, site |-> "shopify", gsc |-> TRUE, improve |-> TRUE],
   [kind |-> "page", handle |-> FALSE, site |-> "shopify", gsc |-> FALSE, improve |-> FALSE]}

Default == {[approval |-> "on", gate |-> "blocked"]}
=============================================================================
