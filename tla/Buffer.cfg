SPECIFICATION Spec
CONSTANTS
    Buffers = {readBuf, writeBuf}
    Bytes = {x, y}
    Zero = x
    InitSize = 1
    ExtraSize = 2
    MaxSize = 3
    Narrow = 8
    Wide = 64
INVARIANTS
    TypeOK
PROPERTIES
    ByteQueueSpec
