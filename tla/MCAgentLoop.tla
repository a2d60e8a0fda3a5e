---------------------------- MODULE MCAgentLoop ----------------------------
(* The tool-call lists of the model checker: serial calls before and after  *)
(* parallel ones, short lists, or serial calls only; and the histories.     *)
EXTENDS AgentLoop

MCMixedCalls == {<<"par", "par", "ser">>, <<"ser", "par">>}
MCShortCalls == {<<"ser">>, <<"par", "par">>}
MCSerialCalls == {<<"ser">>}

\* A first prompt, one after a run that called a tool, and one after a run that
\* also put off its end: the reminder of that is stored as a result of no call.
MCPrompt == <<UserText(0)>>
MCCalled == <<UserText(0), [kind |-> "assistant", ids |-> {CallId(0, 1)}, step |-> 0],
              Results(0, {CallId(0, 1)}), Ack, UserText(0)>>
MCReplay == <<UserText(0), [kind |-> "assistant", ids |-> {CallId(0, 1)}, step |-> 0],
              Results(0, {CallId(0, 1)}), Results(0, {Reminder}), UserText(0)>>

MCFirst == {MCPrompt}
MCHistories == {MCPrompt, MCReplay}
MCPast == {MCPrompt, MCCalled, MCReplay}
=============================================================================
