---------------------------- MODULE MCScenarios ----------------------------
(* An instance of Scenarios for TLC: two words in every loop, up to two triggers. *)
EXTENDS Scenarios

MCKeys == {Service("reciever"), Service("sleep-go-http"), Service("empty-go-http"),
           Trigger(0), Trigger(1),
           [kind |-> "Broker", name |-> "default", index |-> 0],
           [kind |-> "functions Trigger", name |-> "default", index |-> 0],
           [kind |-> "Sequence", name |-> "event-handler", index |-> 0]}

MCValues == {"unset", "kept", "0", "1", "10", "5", "15", "70", "80", "concurrency", "cpu",
             "rps", "hpa", "3000", "4000", "2", "once"}

(* One of each action of main, on objects of the recipes where it can be. *)
MCManualCalls ==
  {patchFunctionService(Service("sleep-go-http"), "rps", "80"),
   patchFunctionService(Service("sleep-go-http"), "cpu", "80"),
   patchFunctionService(Service("sleep-go-http"), "concurrency", "80"),
   patchTrigger(Trigger(0), "5"),
   deployTrigger("trigger", 2), deleteTrigger("trigger", 2),
   deploy("sleep-go-http", 1), delete("sleep-go-http", 1),
   deploySequence("event-handler"), deployBrokerScenario("default", "default", 1)}

MCAmounts == <<1, 2>>
MCWorkers == <<"5", "15">>
MCRates == <<"3000", "4000">>
MCRepetitions == <<"1", "2">>
=============================================================================
