SPECIFICATION Spec
CONSTANTS
  Base = 2
  Valores = {1, 2}
  Lados <- MCLados
  MaxLado = 3
  LargoMatriz = 9
INVARIANTS TypeOK GiradaPorBytes
PROPERTIES PasosAcotados TrabadoNoAvanza ImplementaVisor
