SPECIFICATION Spec
CONSTANTS
    r1 = r1
    r2 = r2
    r3 = r3
    Runs = {r1, r2, r3}
    ip_cliente <- Desde
    argv <- Dichas
    Archivos = {"a", "a b", "b", " "}
    Carpetas = {"c"}
    Directorio <- Carpeta
    Leido <- Palabra
    MaxServers = 2
    MaxFiles = 2
INVARIANTS
    TypeOK
    OneEntryEach
    EntryNamesFirstServerOfHost
    ServersAgreeWithTable
CHECK_DEADLOCK FALSE
