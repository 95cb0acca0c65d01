SPECIFICATION Spec
CONSTANTS
    Instances = {"buffer_pool", "buffer_bytes", "ws_stream", "ws_header", "ws_deflate",
        "utf8_text", "hpack_table", "hpack_arena", "huffman", "hpack_integer", "qpack",
        "civil_calendar"}
INVARIANTS
    BufferBytesKept
    
    HPACKDecodes
    QPACKDecodesEncoded
    CivilDaysAreCounted
CHECK_DEADLOCK FALSE
