SPECIFICATION Spec
CHECK_DEADLOCK FALSE
INVARIANTS
    LuaDenialFinal
    BitsMeanPermission
    LookupsExact
    MlsSound
    
    ContextsValid
    LayoutAgrees
    
