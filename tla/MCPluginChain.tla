--------------------------- MODULE MCPluginChain ---------------------------
(* Instance of PluginChain with the hooks of the example plugins.          *)
EXTENDS PluginChain

MCHooks == DOMAIN HookPoint

\* The http example; two hooks in one bitmap; two bitmaps; no parser set.
MCHookIn == << {HOOK_POINT_HTTP_REQ, HOOK_POINT_HTTP_RESP},
               {[high |-> {62}, low |-> {0}]},
               {HOOK_POINT_CUSTOM_MESSAGE, HOOK_POINT_PAYLOAD_PARSE},
               {} >>
=============================================================================
