\* Four plugins, every hook, any number of messages.
SPECIFICATION ChainSpec
CONSTANTS
  Hooks <- MCHooks
  N = 4
  HookIn <- MCHookIn
INVARIANTS
  ChainTypeOK
  OneResultPerMessage
  OnlyAskedPlugins
PROPERTIES
  NobodyForgotten
  MessageEnds
