SPECIFICATION Spec
CONSTANTS
    Instances = {"cache_keys", "cache_calls", "cache_crash", "cache_flush",
        "rate_workers", "rate_takeover", "load_page", "load_view", "load_busy"}
    p1 = p1 p2 = p2 Nobody = Nobody Empty = Empty None = None
SYMMETRY Symmetric
INVARIANTS
    CacheGetIsWhole
    
    
    
