SPECIFICATION Spec
CONSTANTS
    Instances = {"head_line", "head_syntax", "head_framing", "head_lists",
        "response_head", "response_get", "chunked_any", "chunked_long"}
INVARIANTS
    HeadParses
    
    ChunkedVerdictIsOfBytes
CHECK_DEADLOCK FALSE
