\* Two threads; what takes no mutex overlaps what does.  An int wraps inside the file.
CONSTANTS
    Threads = {t1, t2}
    Bytes = {a, z}
    Zero = z
    MaxSize = 3
    MaxLen = 2
    IntHalf = 3
    Nobody = Nobody
SPECIFICATION Spec
INVARIANTS
    TypeOK
    

    
