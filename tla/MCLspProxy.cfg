CONSTANTS
  gopls = gopls
  lint = lint
  go = go
  text = text
  main = main
  notes = notes
  None = None
  Servers = {gopls, lint}
  Languages = {go, text}
  Docs = {main, notes}
  Caps = {"hover"}
  Configured = {gopls, lint}
  Bindings <- MCBindings
  Capabilities <- MCCapabilities
  LangOf <- MCLangOf
  Outcomes = {"array"}
  AskMethods = {"configuration"}
  MaxMsgs = 4
  MaxEvents = 1
SPECIFICATION FairSpec
INVARIANTS OwnAnswers EditsArrive NoOrphans
PROPERTIES Returns
CHECK_DEADLOCK FALSE
