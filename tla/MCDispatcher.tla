----------------------------- MODULE MCDispatcher -----------------------------
\* One or two tasks (t2 is a fix or review task), two agents.
EXTENDS Dispatcher

CONSTANTS t1, t2, a1, a2

TasksMC == {t1, t2}
OneTaskMC == {t1}
LineageMC == {t2}
AgentsMC == {a1, a2}
OneAgentMC == {a1}
NobodyMC == {}
NudgeMC == {"nudge"}
DispatchCancelMC == {"dispatch", "cancel"}
OnlyCancelMC == {"cancel"}
================================================================================
