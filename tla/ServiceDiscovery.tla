--------------------------- MODULE ServiceDiscovery ---------------------------
(***************************************************************************)
(* Which registrations DiscoverServices makes for the classes of an        *)
(* assembly that are decorated with [SingletonService], [ScopedService] or *)
(* [TransientService], or with their generic forms.                        *)
(***************************************************************************)

Lifetimes == {"Singleton", "Scoped", "Transient"}

NotNamed == "NotNamed"      \* the service of an attribute that is not generic

\* A class as reflection shows it.
Class(types) ==
  [name       : types,
   interfaces : SUBSET types,   \* all of them
   inherited  : SUBSET types,   \* those that another of its interfaces inherits
   ofBase     : SUBSET types,   \* those of its base class
   attributes : SUBSET [lifetime : Lifetimes, service : types \union {NotNamed}]]

Direct(class) == (class.interfaces \ class.inherited) \ class.ofBase

\* Singletons are asked for any interface, the others for a direct one.
HasInterfaces(class, lifetime) ==
  IF lifetime = "Singleton" THEN class.interfaces # {} ELSE Direct(class) # {}

\* What a class is registered as for one of its attributes.
Services(class, attribute) ==
  IF attribute.service # NotNamed THEN {attribute.service}
  ELSE IF HasInterfaces(class, attribute.lifetime) THEN Direct(class) ELSE {class.name}

\* GetServices(service), over the classes of the assemblies.
Implementations(classes, service) ==
  {c \in classes : \E a \in c.attributes : service \in Services(c, a)}

===============================================================================
