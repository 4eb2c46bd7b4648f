----------------------------- MODULE MCToolLoop -----------------------------
(* Instances of ToolLoop: three providers of which one writes for another   *)
(* that writes for the third, a resolver, and one tool of each kind.        *)
EXTENDS ToolLoop

ConcreteProviders == {"local", "cloud", "third"}
ResolverProviders == {"script"}
AnyFallback == [r \in ResolverProviders |-> "third"]
OfferedApis == [p \in ConcreteProviders |->
    IF p = "local" THEN {"chat", "tools"} ELSE {"chat", "tools", "responses"}]
Writers == [p \in ConcreteProviders |->
    CASE p = "local" -> "cloud" [] p = "cloud" -> "third" [] OTHER -> None]
Retries == [p \in ConcreteProviders |-> IF p = "cloud" THEN 1 ELSE 0]
OneSecond == [p \in ConcreteProviders |-> 1]
TwoSeconds == [p \in ConcreteProviders |-> 2]
OnlyCloud == [p \in ConcreteProviders |-> p = "cloud"]

ToolNames == {"search", "wrapper", "expert", "news"}
Kinds == [t \in ToolNames |->
    CASE t = "search" -> "plain" [] t = "wrapper" -> "wrapper" [] OTHER -> "expert"]
NoSettings == [k \in {} |-> None]
Yamls == [t \in ToolNames |->
    CASE t = "expert" -> [llm_provider |-> "cloud", available_tools |-> "some"]
      [] t = "news" -> [api |-> "responses"]
      [] OTHER -> NoSettings]
=============================================================================
