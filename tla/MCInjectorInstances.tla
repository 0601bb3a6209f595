-------------------------- MODULE MCInjectorInstances --------------------------
(* InjectorInstances with an application injector and a request injector     *)
(* below the root.  `service` is a singleton of the application and has an   *)
(* `own` instance to itself; `session` belongs to the request and depends on *)
(* the service; `boot` is registered with the root.                          *)
EXTENDS InjectorInstances

CONSTANTS root, app, req, appScope, reqScope, service, own, session, boot

MCNamed == {root, app, req}
MCNamedPath == [c \in MCNamed |-> CASE c = root -> <<root>>
                                    [] c = app  -> <<root, app>>
                                    [] c = req  -> <<root, app, req>>]
MCScopeOf == [c \in MCNamed |-> CASE c = root -> None
                                  [] c = app  -> appScope
                                  [] c = req  -> reqScope]

MCDisposers == {app, req}

AppProviders == {service, own, session}
AppRegistration == [p \in AppProviders |-> app]
AppRestriction == [p \in AppProviders |-> CASE p = own     -> "perInjector"
                                            [] p = session -> reqScope
                                            [] OTHER       -> None]
AppDeps == [p \in AppProviders |-> CASE p = service -> <<own>>
                                     [] p = session -> <<service>>
                                     [] OTHER       -> <<>>]

BootProviders == {boot, own}
BootRegistration == [p \in BootProviders |-> root]
BootRestriction == [p \in BootProviders |-> IF p = own THEN "perInjector" ELSE None]
BootDeps == [p \in BootProviders |-> IF p = boot THEN <<own>> ELSE <<>>]
===============================================================================
